---- MODULE Spec2Model ----
(***************************************************************************)
(* Model of the causal-extraction review pipeline: structured-output       *)
(* recovery and the generation handler (engine/extractor_page.py), the     *)
(* schema normalizer, the snippet-to-source matcher and the score ledger   *)
(* (evaluation/evaluation.py), with the saves of two sessions, the two     *)
(* st.cache_data stores and the filters of the review page.                *)
(*                                                                         *)
(* Text is a sequence of one-character strings, so that the substring      *)
(* searches, replacements and the JSON scanner are computed, not assumed.  *)
(***************************************************************************)
EXTENDS Integers, Sequences, FiniteSets, TLC

VARIABLES
    text,          \* recovery: the raw text returned by the LLM
    rec,           \* recovery: result of recovering text
    files,         \* generation: output directory, file name -> saved value
    log,           \* generation: rows of generation_log.csv
    clock,         \* generation: wall clock, in seconds
    last,          \* generation: what the last interaction showed
    raw_data,      \* normalizer: the parsed content of the selected file
    table,         \* normalizer: result of load_json_data
    corpus,        \* matcher: the input column of the reference CSV
    raw_text,      \* matcher: the snippet (already stripped)
    shown,         \* matcher: result of the source text comparison
    score_file,    \* ledger: content of validation_scores.json
    saves,         \* ledger: number of saves done
    saved,         \* ledger: the arguments of the last save
    prompt_template,  \* substitution: the prompt template of the form
    user_input,       \* substitution: the input value of the form
    final_prompt,     \* substitution: the prompt sent to the model
    sessions,      \* concurrent saves: where each session is in its save
    file_len,      \* concurrent saves: length of validation_scores.json
    cache,         \* caching: the st.cache_data store of load_json_data
    mtime,         \* caching: modification time of validation_scores.json
    ref_cache,     \* caching: the st.cache_data store of load_csv_reference
    df_filtered    \* review: the filtered table the page shows

recVars   == <<text, rec>>
genVars   == <<files, log, clock, last>>
normVars  == <<raw_data, table>>
matchVars == <<corpus, raw_text, shown>>
ledgerVars == <<score_file, saves, saved>>
substVars == <<prompt_template, user_input, final_prompt>>
concVars  == <<sessions, file_len>>
cacheVars == <<cache, mtime, ref_cache>>
filterVars == <<df_filtered>>
vars == <<text, rec, files, log, clock, last, raw_data, table,
          corpus, raw_text, shown, score_file, saves, saved,
          prompt_template, user_input, final_prompt,
          sessions, file_len, cache, mtime, ref_cache, df_filtered>>

-----------------------------------------------------------------------------
(* Bounds of the model.                                                    *)

MaxElems == 2      \* elements in a generated JSON array
MaxGen == 2        \* generation interactions
MaxClock == 2      \* seconds the clock can advance
MaxRows == 2       \* elements of a parsed array given to the normalizer
MaxCorpus == 2     \* entries of the reference corpus
MaxSaves == 2      \* saves to the score ledger

-----------------------------------------------------------------------------
(* Text primitives (Python str methods on sequences of characters).        *)

NL == "\n"
QUOTE == "\""

Whitespace == {" ", NL}

\* s[i..] begins with pat
StartsAt(s, i, pat) ==
    /\ i >= 1
    /\ i + Len(pat) - 1 <= Len(s)
    /\ \A k \in 1..Len(pat) : s[i + k - 1] = pat[k]

\* str.find: the lowest index where pat occurs, 0 when absent (Python: -1)
Find(s, pat) ==
    LET hits == {i \in 1..(Len(s) + 1) : StartsAt(s, i, pat)}
    IN  IF hits = {} THEN 0 ELSE CHOOSE i \in hits : \A j \in hits : i <= j

\* str.rfind: the highest index where pat occurs, 0 when absent
RFind(s, pat) ==
    LET hits == {i \in 1..(Len(s) + 1) : StartsAt(s, i, pat)}
    IN  IF hits = {} THEN 0 ELSE CHOOSE i \in hits : \A j \in hits : i >= j

\* pat in s
Contains(s, pat) == Find(s, pat) # 0

\* str.strip(): drop leading and trailing whitespace
Strip(s) ==
    LET keep == {i \in 1..Len(s) : s[i] \notin Whitespace}
    IN  IF keep = {} THEN <<>>
        ELSE SubSeq(s, CHOOSE i \in keep : \A j \in keep : i <= j,
                       CHOOSE i \in keep : \A j \in keep : i >= j)

RECURSIVE ReplaceFrom(_, _, _, _)
ReplaceFrom(s, i, pat, rep) ==
    IF i > Len(s) THEN <<>>
    ELSE IF StartsAt(s, i, pat)
         THEN rep \o ReplaceFrom(s, i + Len(pat), pat, rep)
         ELSE <<s[i]>> \o ReplaceFrom(s, i + 1, pat, rep)

\* str.replace(pat, rep) for a non-empty pat: every occurrence, left to right
Replace(s, pat, rep) == ReplaceFrom(s, 1, pat, rep)

-----------------------------------------------------------------------------
(* json.loads on the JSON subset the inputs use: arrays, objects, strings  *)
(* without escapes, unsigned integers.  A parsed value is represented by   *)
(* its compact serialization (the text with the whitespace between tokens  *)
(* removed), which identifies the value: no input has duplicate keys or    *)
(* two spellings of one number.                                            *)

Digits == {"1", "2", "3"}

ParseFail == [ok |-> FALSE, pos |-> 0, val |-> <<>>]

RECURSIVE SkipWs(_, _)
SkipWs(s, i) ==
    IF i <= Len(s) /\ s[i] \in Whitespace THEN SkipWs(s, i + 1) ELSE i

\* a string token starting at the quote s[i]; a raw newline inside is a
\* control character, which the strict decoder rejects
ParseString(s, i) ==
    LET close == {j \in (i + 1)..Len(s) : s[j] = QUOTE}
    IN  IF close = {} THEN ParseFail
        ELSE LET j == CHOOSE j \in close : \A k \in close : j <= k
             IN  IF \E k \in (i + 1)..(j - 1) : s[k] = NL THEN ParseFail
                 ELSE [ok |-> TRUE, pos |-> j + 1, val |-> SubSeq(s, i, j)]

RECURSIVE DigitsEnd(_, _)
DigitsEnd(s, i) ==
    IF i <= Len(s) /\ s[i] \in Digits THEN DigitsEnd(s, i + 1) ELSE i

ParseNumber(s, i) ==
    LET j == DigitsEnd(s, i)
    IN  [ok |-> TRUE, pos |-> j, val |-> SubSeq(s, i, j - 1)]

RECURSIVE ParseValue(_, _)
RECURSIVE ParseElems(_, _, _)
RECURSIVE ParsePairs(_, _, _)

\* the elements of an array, s[i] being the start of the next element and
\* acc the serialization so far
ParseElems(s, i, acc) ==
    LET v == ParseValue(s, i)
        j == SkipWs(s, v.pos)
    IN  IF ~v.ok \/ j > Len(s) THEN ParseFail
        ELSE IF s[j] = "]"
             THEN [ok |-> TRUE, pos |-> j + 1, val |-> acc \o v.val \o <<"]">>]
        ELSE IF s[j] = ","
             THEN ParseElems(s, SkipWs(s, j + 1), acc \o v.val \o <<",">>)
        ELSE ParseFail

\* the pairs of an object, s[i] being where the next key must start
ParsePairs(s, i, acc) ==
    IF i > Len(s) \/ s[i] # QUOTE THEN ParseFail
    ELSE LET k == ParseString(s, i)
             c == SkipWs(s, k.pos)
         IN  IF ~k.ok \/ c > Len(s) \/ s[c] # ":" THEN ParseFail
             ELSE LET v == ParseValue(s, SkipWs(s, c + 1))
                      j == SkipWs(s, v.pos)
                  IN  IF ~v.ok \/ j > Len(s) THEN ParseFail
                      ELSE IF s[j] = "}"
                           THEN [ok |-> TRUE, pos |-> j + 1,
                                 val |-> acc \o k.val \o <<":">> \o v.val \o <<"}">>]
                      ELSE IF s[j] = ","
                           THEN ParsePairs(s, SkipWs(s, j + 1),
                                           acc \o k.val \o <<":">> \o v.val \o <<",">>)
                      ELSE ParseFail

ParseValue(s, i) ==
    IF i > Len(s) THEN ParseFail
    ELSE IF s[i] = QUOTE THEN ParseString(s, i)
    ELSE IF s[i] \in Digits THEN ParseNumber(s, i)
    ELSE IF s[i] = "["
         THEN LET j == SkipWs(s, i + 1)
              IN  IF j <= Len(s) /\ s[j] = "]"
                  THEN [ok |-> TRUE, pos |-> j + 1, val |-> <<"[", "]">>]
                  ELSE ParseElems(s, j, <<"[">>)
    ELSE IF s[i] = "{"
         THEN LET j == SkipWs(s, i + 1)
              IN  IF j <= Len(s) /\ s[j] = "}"
                  THEN [ok |-> TRUE, pos |-> j + 1, val |-> <<"{", "}">>]
                  ELSE ParsePairs(s, j, <<"{">>)
    ELSE ParseFail

\* json.loads(s): one value, surrounded by optional whitespace, and nothing else
JsonLoads(s) ==
    LET v == ParseValue(s, SkipWs(s, 1))
    IN  IF v.ok /\ SkipWs(s, v.pos) = Len(s) + 1
        THEN [ok |-> TRUE, val |-> v.val]
        ELSE [ok |-> FALSE, val |-> <<>>]

-----------------------------------------------------------------------------
(* Structured-output recovery, engine/extractor_page.py lines 200-226.     *)

\* The fence character is the grave accent.  A TLA+ string cannot hold one,
\* so the caret stands for it; no text of the model uses a caret otherwise.
GRAVE == "^"

FENCE_JSON == <<GRAVE, GRAVE, GRAVE, "j", "s", "o", "n">>
FENCE == <<GRAVE, GRAVE, GRAVE>>

\* parsed_json = None
None == <<"None">>

\* raw: the text stripped, every json fence and every bare fence replaced by
\* nothing, and stripped again
Clean(t) == Strip(Replace(Replace(Strip(t), FENCE_JSON, <<>>), FENCE, <<>>))

\* the best-effort JSON substring: first [ to last ], else first { to last },
\* else the whole cleaned text
Candidate(raw) ==
    LET start == Find(raw, <<"[">>)
        end == RFind(raw, <<"]">>)
    IN  IF start # 0 /\ end # 0 /\ end > start THEN SubSeq(raw, start, end)
        ELSE LET start2 == Find(raw, <<"{">>)
                 end2 == RFind(raw, <<"}">>)
             IN  IF start2 # 0 /\ end2 # 0 /\ end2 > start2
                 THEN SubSeq(raw, start2, end2)
                 ELSE raw

\* The comment-stripping substitution (re.sub with re.S), scanning from i:
\* a line comment is two slashes, anything, up to a position followed by a
\* newline; a block comment is slash-star, anything (lazy), star-slash.
\* Under re.S the dot matches a newline too, so the greedy repetition of the
\* line-comment alternative runs up to the LAST newline after the slashes;
\* the lazy one of the block comment stops at the first star-slash.
RECURSIVE StripCommentsFrom(_, _)
StripCommentsFrom(s, i) ==
    IF i > Len(s) THEN <<>>
    ELSE LET nls == {j \in (i + 2)..Len(s) : s[j] = NL}
             ends == {j \in (i + 2)..Len(s) : StartsAt(s, j, <<"*", "/">>)}
         IN  IF StartsAt(s, i, <<"/", "/">>) /\ nls # {}
             THEN StripCommentsFrom(s, CHOOSE j \in nls : \A k \in nls : j >= k)
             ELSE IF StartsAt(s, i, <<"/", "*">>) /\ ends # {}
             THEN StripCommentsFrom(s, (CHOOSE j \in ends : \A k \in ends : j <= k) + 2)
             ELSE <<s[i]>> \o StripCommentsFrom(s, i + 1)

StripComments(s) == StripCommentsFrom(s, 1)

\* The trailing-comma substitution, scanning from i: a comma, optional
\* whitespace and a closing brace or bracket are replaced by that closer
RECURSIVE StripTrailingCommasFrom(_, _)
StripTrailingCommasFrom(s, i) ==
    IF i > Len(s) THEN <<>>
    ELSE LET j == SkipWs(s, i + 1)
         IN  IF s[i] = "," /\ j <= Len(s) /\ s[j] \in {"}", "]"}
             THEN <<s[j]>> \o StripTrailingCommasFrom(s, j + 1)
             ELSE <<s[i]>> \o StripTrailingCommasFrom(s, i + 1)

StripTrailingCommas(s) == StripTrailingCommasFrom(s, 1)

\* candidate_no_comments
Repaired(raw) == StripTrailingCommas(StripComments(Candidate(raw)))

\* RecoverJson with a guessed fallback: an empty array instead of the failure
RecoverJson_Guess(t) ==
    LET raw == Clean(t)
        direct == JsonLoads(raw)
        repaired == JsonLoads(Repaired(raw))
    IN  IF direct.ok
        THEN [status |-> "ok", path |-> "direct", value |-> direct.val]
        ELSE IF repaired.ok
        THEN [status |-> "ok", path |-> "repair", value |-> repaired.val]
        ELSE [status |-> "ok", path |-> "none", value |-> <<"[", "]">>]

\* The whole recovery: strategy 1 parses the cleaned text, strategy 2 the
\* repaired candidate; when both fail a JSONDecodeError is raised and
\* parsed_json is still None.
RecoverJson(t) ==
    LET raw == Clean(t)
        direct == JsonLoads(raw)
        repaired == JsonLoads(Repaired(raw))
    IN  IF direct.ok
        THEN [status |-> "ok", path |-> "direct", value |-> direct.val]
        ELSE IF repaired.ok
        THEN [status |-> "ok", path |-> "repair", value |-> repaired.val]
        ELSE [status |-> "UnparsableOutput", path |-> "none", value |-> None]

-----------------------------------------------------------------------------
(* The raw texts the recovery is applied to: a JSON array of up to         *)
(* MaxElems elements, with the defects an LLM produces (comments, trailing *)
(* commas, a fence, surrounding prose), and a few texts that are no array. *)

Elems == {
    <<"1">>,
    <<"2">>,
    <<QUOTE, "a", QUOTE>>,
    <<QUOTE, GRAVE, GRAVE, GRAVE, QUOTE>>,
    <<QUOTE, "a", "/", "*", "b", "*", "/", "c", QUOTE>>,
    <<"{", QUOTE, "a", QUOTE, ":", "1", "}">>,
    <<"x">> }

Seps == {
    <<",">>,
    <<",", "/", "/", "c", NL>>,
    <<",", "/", "*", "c", "*", "/">> }

Tails == { <<>>, <<",">>, <<NL>> }

NotJson == <<"n", "o", "t", " ", "j", "s", "o", "n", " ", "a", "t", " ", "a", "l", "l">>

RECURSIVE Items(_)
Items(n) ==
    IF n = 0 THEN {<<>>}
    ELSE IF n = 1 THEN Elems
    ELSE {x \o s \o e : x \in Items(n - 1), s \in Seps, e \in Elems}

Arrays == UNION {{<<"[">> \o x \o t \o <<"]">> : x \in Items(n), t \in Tails} : n \in 0..MaxElems}

Wrapped(body) == {
    body,
    FENCE_JSON \o <<NL>> \o body \o <<NL>> \o FENCE,
    <<"x", " ">> \o body \o <<" ">> }

RawTexts ==
    UNION {Wrapped(b) : b \in Arrays}
    \cup {NotJson, <<>>, <<"]", " ", "[">>, <<"1">>, <<QUOTE, "a", QUOTE>>,
          <<"{", QUOTE, "a", QUOTE, ":", "1", ",", "}">>}

NotRun == [status |-> "not run", path |-> "none", value |-> None]

-----------------------------------------------------------------------------
(* Recovery as a function of the raw text: the text is drawn from RawTexts *)
(* and the recovery is applied to it once.                                 *)

RecIdle == text = <<>> /\ rec = NotRun
GenIdle == files = <<>> /\ log = <<>> /\ clock = 0 /\ last = <<>>
NormIdle == raw_data = <<>> /\ table = <<>>
MatchIdle == corpus = <<>> /\ raw_text = <<>> /\ shown = <<>>
\* validation_scores.json: whether it exists, whether json.load accepts it,
\* and the mapping file name -> unique id -> entry it holds
NoFile == [exists |-> FALSE, readable |-> FALSE, content |-> <<>>]

LedgerIdle == score_file = NoFile /\ saves = 0 /\ saved = <<>>

SubstIdle == prompt_template = <<>> /\ user_input = <<>> /\ final_prompt = <<>>

ConcIdle == sessions = <<>> /\ file_len = 0

CacheIdle == cache = <<>> /\ mtime = 0 /\ ref_cache = <<>>

FilterIdle == df_filtered = <<>>

RecInit ==
    /\ text \in RawTexts
    /\ rec = NotRun
    /\ GenIdle /\ NormIdle /\ MatchIdle /\ LedgerIdle /\ SubstIdle
    /\ ConcIdle /\ CacheIdle /\ FilterIdle

Recover ==
    /\ rec.status = "not run"
    /\ rec' = RecoverJson(text)
    /\ UNCHANGED <<text, genVars, normVars, matchVars, ledgerVars, substVars,
                 concVars, cacheVars, filterVars>>

RecNext == Recover

SpecRecover == RecInit /\ [][RecNext]_vars

-----------------------------------------------------------------------------
(* The generation interaction, engine/extractor_page.py lines 167-247 (the *)
(* same logic is in engine/extractor.py lines 108-191).                    *)

Templates == { <<>>, <<"H", "i", " ", "{", "}">> }
Inputs == { <<>>, <<"B", "o", "b">> }

\* what model.generate does: it raises, or it returns a text
GenTexts == {
    <<>>,
    <<"[", "1", "]">>,
    FENCE_JSON \o <<NL, "[", "{", QUOTE, "a", QUOTE, ":", "1", "}", ",", "]", NL>> \o FENCE,
    <<"[", "1", ",", "/", "/", "c", NL, "2", NL, "]">>,
    NotJson }

Responses ==
    {[raises |-> TRUE, text |-> <<>>]} \cup {[raises |-> FALSE, text |-> t] : t \in GenTexts}

\* filename = response_<timestamp>.json, the timestamp having a resolution of
\* one second: the name is identified with the second it was made in
OutputName(now) == now

\* open(filepath, 'w') and json.dump: creates the file or replaces its content
WriteFile(fs, name, value) ==
    [f \in DOMAIN fs \cup {name} |-> IF f = name THEN value ELSE fs[f]]

\* a log row written with the name the next second would give
AppendToLog_NextName(lg, template, input, filename, now) ==
    Append(lg, [prompt_template |-> template, input |-> input,
                output_filename |-> filename + 1, timestamp |-> now])

\* append_to_log
AppendToLog(lg, template, input, filename, now) ==
    Append(lg, [prompt_template |-> template, input |-> input,
                output_filename |-> filename, timestamp |-> now])

\* Submit with the output file opened before the response is parsed
Submit_WriteFirst(fs, lg, now, n, template, input, resp) ==
    IF template = <<>> \/ input = <<>>
    THEN [files |-> fs, log |-> lg,
          last |-> [n |-> n + 1, outcome |-> "warning", parsed_json |-> None, raw |-> <<>>]]
    ELSE IF resp.raises
    THEN [files |-> fs, log |-> lg,
          last |-> [n |-> n + 1, outcome |-> "error", parsed_json |-> None, raw |-> <<>>]]
    ELSE LET r == RecoverJson(resp.text)
         IN  IF r.status = "ok"
             THEN [files |-> WriteFile(fs, OutputName(now), r.value),
                   log |-> AppendToLog(lg, template, input, OutputName(now), now),
                   last |-> [n |-> n + 1, outcome |-> "success",
                             parsed_json |-> r.value, raw |-> <<>>]]
             ELSE [files |-> WriteFile(fs, OutputName(now), None), log |-> lg,
                   last |-> [n |-> n + 1, outcome |-> "UnparsableOutput",
                             parsed_json |-> None, raw |-> resp.text]]

\* One form submission handled to completion: the state of the output
\* directory, of the log and of the page after it.
Submit(fs, lg, now, n, template, input, resp) ==
    IF template = <<>> \/ input = <<>>
    THEN [files |-> fs, log |-> lg,
          last |-> [n |-> n + 1, outcome |-> "warning", parsed_json |-> None, raw |-> <<>>]]
    ELSE IF resp.raises
    THEN [files |-> fs, log |-> lg,
          last |-> [n |-> n + 1, outcome |-> "error", parsed_json |-> None, raw |-> <<>>]]
    ELSE LET r == RecoverJson(resp.text)
         IN  IF r.status = "ok"
             THEN [files |-> WriteFile(fs, OutputName(now), r.value),
                   log |-> AppendToLog(lg, template, input, OutputName(now), now),
                   last |-> [n |-> n + 1, outcome |-> "success",
                             parsed_json |-> r.value, raw |-> <<>>]]
             ELSE [files |-> fs, log |-> lg,
                   last |-> [n |-> n + 1, outcome |-> "UnparsableOutput",
                             parsed_json |-> None, raw |-> resp.text]]

GenInit ==
    /\ files = <<>>
    /\ log = <<>>
    /\ clock = 0
    /\ last = [n |-> 0, outcome |-> "none", parsed_json |-> None, raw |-> <<>>]
    /\ RecIdle /\ NormIdle /\ MatchIdle /\ LedgerIdle /\ SubstIdle
    /\ ConcIdle /\ CacheIdle /\ FilterIdle

Generate ==
    /\ last.n < MaxGen
    /\ \E template \in Templates, input \in Inputs, resp \in Responses :
         LET after == Submit(files, log, clock, last.n, template, input, resp)
         IN  /\ files' = after.files
             /\ log' = after.log
             /\ last' = after.last
    /\ UNCHANGED <<clock, recVars, normVars, matchVars, ledgerVars, substVars,
                 concVars, cacheVars, filterVars>>

Tick ==
    /\ clock < MaxClock
    /\ clock' = clock + 1
    /\ UNCHANGED <<files, log, last, recVars, normVars, matchVars, ledgerVars, substVars,
                 concVars, cacheVars, filterVars>>

GenNext == Generate \/ Tick

SpecGen == GenInit /\ [][GenNext]_vars

-----------------------------------------------------------------------------
(* The score ledger as read by the pages, evaluation/evaluation.py lines   *)
(* 56-93.  The ledger is a mapping file name -> unique_id -> entry; an     *)
(* entry is a mapping from field names to strings.                         *)

ScoreFields == {"semantic_fidelity", "schema_accuracy", "explicit_accuracy",
                "structural_integrity"}

\* a score file that json.load rejects; content is what the file would hold
\* were it not damaged, and no code can read it
Unparsable(scores) == [exists |-> TRUE, readable |-> FALSE, content |-> scores]

\* a load that takes the content of the file whatever its state
LoadScores_Trusting(file) == file.content

\* load_scores: {} when the file is missing, {} when reading it raises,
\* else the parsed content
LoadScores(file) ==
    IF ~file.exists THEN <<>>
    ELSE IF ~file.readable THEN <<>>
    ELSE file.content

\* save_scores: the file is rewritten with the whole mapping
SaveScores(scores) == [exists |-> TRUE, readable |-> TRUE, content |-> scores]

\* An entry of the ledger is a mapping from field names to strings; an entry
\* that is a bare string s (the oldest format) is held as StrEntry(s).
StrEntry(s) == [bare_string |-> s]

IsStr(entry) == DOMAIN entry = {"bare_string"}

\* an entry that is a bare JSON number n
NumEntry(n) == [bare_number |-> n]

IsNum(entry) == DOMAIN entry = {"bare_number"}

\* d.get(key, default) on a mapping held as a function
DictGet(d, key, default) == IF key \in DOMAIN d THEN d[key] ELSE default

\* str(unique_id) for the positions the model uses
Str(i) == <<"0", "1", "2", "3", "4">>[i + 1]

\* get_score_and_notes: the four scores and the notes of one row.  Only a
\* string is tested for; on a number the membership test "score" in entry
\* raises TypeError (raised), which load_json_data catches.
GetScoreAndNotes(all_scores, file_name, unique_id) ==
    LET file_scores == DictGet(all_scores, file_name, <<>>)
        entry == DictGet(file_scores, unique_id, <<>>)
    IN  IF IsStr(entry)
        THEN [raised |-> FALSE, semantic_fidelity |-> entry.bare_string,
              schema_accuracy |-> "", explicit_accuracy |-> "",
              structural_integrity |-> "", notes |-> ""]
        ELSE IF IsNum(entry)
        THEN [raised |-> TRUE, semantic_fidelity |-> "",
              schema_accuracy |-> "", explicit_accuracy |-> "",
              structural_integrity |-> "", notes |-> ""]
        ELSE IF "score" \in DOMAIN entry /\ "semantic_fidelity" \notin DOMAIN entry
        THEN [raised |-> FALSE, semantic_fidelity |-> DictGet(entry, "score", ""),
              schema_accuracy |-> "", explicit_accuracy |-> "",
              structural_integrity |-> "", notes |-> DictGet(entry, "notes", "")]
        ELSE [raised |-> FALSE,
              semantic_fidelity |-> DictGet(entry, "semantic_fidelity", ""),
              schema_accuracy |-> DictGet(entry, "schema_accuracy", ""),
              explicit_accuracy |-> DictGet(entry, "explicit_accuracy", ""),
              structural_integrity |-> DictGet(entry, "structural_integrity", ""),
              notes |-> DictGet(entry, "notes", "")]

-----------------------------------------------------------------------------
(* The schema normalizer, load_json_data of evaluation/evaluation.py lines *)
(* 105-194.  A parsed JSON value is [kind, elems]; an element of an array  *)
(* is [kind, cells, map]: a list has cells, a mapping has a map from every *)
(* key the code reads to the value, Absent when the key is missing.        *)

COLUMNS_V4 == <<"pattern_type", "sentence_type", "marked_type", "explicit_type",
                "relationship", "marker", "subject", "object", "source_text", "reasoning">>

COLUMNS_V3 == <<"pattern", "causal type", "causal", "note",
                "Named entity/Object in causal", "original reference">>

DISPLAY_COLUMNS_V4 == <<"Pattern Type", "Sentence Type", "Marked Type", "Explicit Type",
                        "Relationship", "Marker", "Subject", "Object", "Source Text",
                        "Reasoning">>

DISPLAY_COLUMNS_V3 == <<"Pattern", "Causal Type", "Causal Statement", "Note",
                        "Named Entity/Object", "Original Reference">>

ScoreColumns == <<"SF", "SA", "EA", "SI", "Notes">>

V4DetectKeys == {"pattern_type", "sentence_type", "marked_type", "explicit_type",
                 "relationship", "source_text"}

AliasKeys == {"causal_statement", "notes", "named_entity", "original_reference"}

AllKeys == {COLUMNS_V4[i] : i \in 1..Len(COLUMNS_V4)}
           \cup {COLUMNS_V3[i] : i \in 1..Len(COLUMNS_V3)} \cup AliasKeys

Absent == "<absent>"      \* the key is not in the mapping
NoneVal == "<None>"       \* JSON null, Python None

NoMap == [k \in AllKeys |-> Absent]

\* key in item
HasKey(item, key) == item.map[key] # Absent

\* item.get(key): None when the key is missing
ItemGet(item, key) == IF HasKey(item, key) THEN item.map[key] ELSE NoneVal

\* item.get(key, default)
ItemGetDefault(item, key, default) == IF HasKey(item, key) THEN item.map[key] ELSE default

\* get_val: the value, or the empty string when it is missing or null
get_val(item, key) == IF ItemGet(item, key) # NoneVal THEN ItemGet(item, key) ELSE ""

\* is_v4 looking only at the two keys the other page looks at
is_v4_TwoKeys(first_item) ==
    HasKey(first_item, "pattern_type") \/ HasKey(first_item, "sentence_type")

\* is_v4: any v4-specific key in the first item
is_v4(first_item) == \E k \in V4DetectKeys : HasKey(first_item, k)

\* the empty DataFrame returned with a diagnostic
\* an empty frame returned without the error being reported
EmptyTable_Silent(columns, version, error) ==
    [rows |-> <<>>, columns |-> columns, schema_version |-> version, error |-> "none"]

\* an empty frame that always has the legacy columns and tag
EmptyTable_Legacy(columns, version, error) ==
    [rows |-> <<>>, columns |-> DISPLAY_COLUMNS_V3 \o <<"Score">>, schema_version |-> "v3",
     error |-> error]

EmptyTable(columns, version, error) ==
    [rows |-> <<>>, columns |-> columns, schema_version |-> version, error |-> error]

\* pd.DataFrame(raw_data, columns=COLUMNS_V3) on a list of lists: a row
\* shorter than the widest one is padded with None; rows wider than the
\* six columns make the constructor raise
LegacyFrame(elems) ==
    IF \E i \in 1..Len(elems) : Len(elems[i].cells) > Len(COLUMNS_V3)
    THEN [ok |-> FALSE, rows |-> <<>>]
    ELSE [ok |-> TRUE,
          rows |-> [i \in 1..Len(elems) |->
                      [c \in 1..Len(COLUMNS_V3) |->
                          IF c <= Len(elems[i].cells) THEN elems[i].cells[c] ELSE NoneVal]]]

\* one row of the V4 frame
V4Row(item) == [c \in 1..Len(COLUMNS_V4) |-> get_val(item, COLUMNS_V4[c])]

\* a row read by the legacy key names only
V3Row_NoAlias(item) ==
    [c \in 1..Len(COLUMNS_V3) |-> ItemGetDefault(item, COLUMNS_V3[c], "")]

\* one row of the V3-like frame: the alias table
V3Row(item) ==
    << ItemGetDefault(item, "pattern", ItemGetDefault(item, "pattern_type", "")),
       ItemGetDefault(item, "causal type", ItemGetDefault(item, "sentence_type", "")),
       ItemGetDefault(item, "causal",
           ItemGetDefault(item, "causal_statement", ItemGetDefault(item, "relationship", ""))),
       ItemGetDefault(item, "note",
           ItemGetDefault(item, "notes", ItemGetDefault(item, "reasoning", ""))),
       ItemGetDefault(item, "Named entity/Object in causal",
           ItemGetDefault(item, "named_entity", ItemGetDefault(item, "object", ""))),
       ItemGetDefault(item, "original reference",
           ItemGetDefault(item, "original_reference", ItemGetDefault(item, "source_text", ""))) >>

\* the frame with the rows numbered from one
WithScores_OneBased(frame, display, version, all_scores, file_name) ==
    [rows |-> [i \in 1..Len(frame) |->
                 [Unique_ID |-> i,
                  cells |-> [c \in {display[k] : k \in 1..Len(display)} |->
                               frame[i][CHOOSE k \in 1..Len(display) : display[k] = c]],
                  SF |-> "", SA |-> "", EA |-> "", SI |-> "", Notes |-> ""]],
     columns |-> <<"Unique_ID">> \o display \o ScoreColumns,
     schema_version |-> version,
     error |-> "none"]

\* df.insert(0, 'Unique_ID', df.index), the renamed columns and the score
\* columns populated from the ledger
WithScores(frame, display, version, all_scores, file_name) ==
    IF \E i \in 1..Len(frame) : GetScoreAndNotes(all_scores, file_name, Str(i - 1)).raised
    THEN EmptyTable(DISPLAY_COLUMNS_V4 \o ScoreColumns, "v4", "ReadError")
    ELSE
    [rows |-> [i \in 1..Len(frame) |->
                 LET sn == GetScoreAndNotes(all_scores, file_name, Str(i - 1))
                 IN  [Unique_ID |-> i - 1,
                      cells |-> [c \in {display[k] : k \in 1..Len(display)} |->
                                   frame[i][CHOOSE k \in 1..Len(display) : display[k] = c]],
                      SF |-> sn.semantic_fidelity, SA |-> sn.schema_accuracy,
                      EA |-> sn.explicit_accuracy, SI |-> sn.structural_integrity,
                      Notes |-> sn.notes]],
     columns |-> <<"Unique_ID">> \o display \o ScoreColumns,
     schema_version |-> version,
     error |-> "none"]

load_json_data(data, selected_file_name, ledger) ==
    IF data.kind = "array" /\ data.elems # <<>> /\ data.elems[1].kind = "list"
    THEN \* Case A: legacy format, list of lists
         IF Len(data.elems[1].cells) # Len(COLUMNS_V3)
         THEN EmptyTable(DISPLAY_COLUMNS_V3 \o <<"Score">>, "v3", "ColumnMismatch")
         ELSE IF ~LegacyFrame(data.elems).ok
         THEN EmptyTable(DISPLAY_COLUMNS_V4 \o ScoreColumns, "v4", "ReadError")
         ELSE WithScores(LegacyFrame(data.elems).rows, DISPLAY_COLUMNS_V3, "v3",
                         LoadScores(ledger), selected_file_name)
    ELSE IF data.kind = "array" /\ data.elems # <<>> /\ data.elems[1].kind = "dict"
    THEN \* Case B: list of dicts; item.get raises on an element that is no dict
         IF \E i \in 1..Len(data.elems) : data.elems[i].kind # "dict"
         THEN EmptyTable(DISPLAY_COLUMNS_V4 \o ScoreColumns, "v4", "ReadError")
         ELSE IF is_v4(data.elems[1])
         THEN WithScores([i \in 1..Len(data.elems) |-> V4Row(data.elems[i])],
                         DISPLAY_COLUMNS_V4, "v4", LoadScores(ledger), selected_file_name)
         ELSE WithScores([i \in 1..Len(data.elems) |-> V3Row(data.elems[i])],
                         DISPLAY_COLUMNS_V3, "v3", LoadScores(ledger), selected_file_name)
    ELSE IF data.kind = "array" /\ data.elems = <<>>
    THEN EmptyTable(DISPLAY_COLUMNS_V4 \o ScoreColumns, "v4", "none")
    ELSE EmptyTable(DISPLAY_COLUMNS_V4 \o ScoreColumns, "v4", "UnsupportedShape")

-----------------------------------------------------------------------------
(* The parsed values the normalizer is applied to, and the ledger it finds.*)
(* An array that starts with a list holds only lists: what the DataFrame   *)
(* constructor does with other elements among lists is left out.          *)

CellNames == <<"c1", "c2", "c3", "c4", "c5", "c6", "c7">>

ListElems ==
    {[kind |-> "list", cells |-> SubSeq(CellNames, 1, n), map |-> NoMap] :
        n \in (Len(COLUMNS_V3) - 1)..(Len(COLUMNS_V3) + 1)}

InputKeys == {"pattern_type", "relationship", "source_text", "marker", "causal",
              "causal_statement"}

\* a mapping with the keys ks, each holding its own name as the value
DictOf(ks) ==
    [kind |-> "dict", cells |-> <<>>, map |-> [k \in AllKeys |-> IF k \in ks THEN k ELSE Absent]]

\* a mapping with the one key k holding null
NullDict(k) ==
    [kind |-> "dict", cells |-> <<>>, map |-> [j \in AllKeys |-> IF j = k THEN NoneVal ELSE Absent]]

DictElems ==
    {DictOf(ks) : ks \in {x \in SUBSET InputKeys : Cardinality(x) <= 2}}
    \cup {NullDict(k) : k \in InputKeys}

ScalarElem == [kind |-> "scalar", cells |-> <<>>, map |-> NoMap]

ElemPool == ListElems \cup DictElems \cup {ScalarElem}

ParsedValues ==
    {[kind |-> k, elems |-> <<>>] : k \in {"object", "string", "number", "null"}}
    \cup {[kind |-> "array", elems |-> e] :
            e \in {x \in UNION {[1..n -> ElemPool] : n \in 0..MaxRows} :
                      (x # <<>> /\ x[1].kind = "list")
                          => \A i \in 1..Len(x) : x[i].kind = "list"}}

FileNames == {"f1", "f2"}

SelectedFile == "f1"

FullEntry(sf, sa, ea, si, notes) ==
    [semantic_fidelity |-> sf, schema_accuracy |-> sa, explicit_accuracy |-> ea,
     structural_integrity |-> si, notes |-> notes]

\* ledgers a review session can have left behind
StoredLedgers ==
    { NoFile,
      SaveScores([f \in {"f1"} |-> [u \in {"0"} |-> FullEntry("3", "", "", "", "x")]]),
      SaveScores([f \in {"f1"} |->
                    [u \in {"0", "1"} |-> IF u = "0" THEN StrEntry("4") ELSE [score |-> "2"]]]),
      SaveScores([f \in {"f1"} |-> [u \in {"0"} |-> [score |-> "3", notes |-> "n"]]]),
      SaveScores([f \in {"f1"} |-> [u \in {"0"} |-> NumEntry(4)]]),
      Unparsable([f \in {"f1"} |-> [u \in {"0"} |-> FullEntry("3", "", "", "", "x")]]) }

NotLoaded == [rows |-> <<>>, columns |-> <<>>, schema_version |-> "none", error |-> "not run"]

NormInit ==
    /\ raw_data \in ParsedValues
    /\ table = NotLoaded
    /\ score_file \in StoredLedgers
    /\ saves = 0 /\ saved = <<>>
    /\ RecIdle /\ GenIdle /\ MatchIdle /\ SubstIdle
    /\ ConcIdle /\ CacheIdle /\ FilterIdle

Normalize ==
    /\ table.error = "not run"
    /\ table' = load_json_data(raw_data, SelectedFile, score_file)
    /\ UNCHANGED <<raw_data, recVars, genVars, matchVars, ledgerVars, substVars,
                 concVars, cacheVars, filterVars>>

NormNext == Normalize

SpecNorm == NormInit /\ [][NormNext]_vars

\* The schema tag of the other load_json_data, engine/visualize_page.py
\* lines 139-153: v4 for a value that is no list or is empty, else decided
\* by two keys of the first element.
visualize_schema_version(data) ==
    IF data.kind = "array" /\ data.elems # <<>>
    THEN IF HasKey(data.elems[1], "pattern_type") \/ HasKey(data.elems[1], "sentence_type")
         THEN "v4"
         ELSE "v3"
    ELSE "v4"

-----------------------------------------------------------------------------
(* The snippet-to-source matcher, the source text comparison of            *)
(* evaluation/evaluation.py lines 554-606.                                 *)

UPPERCASE ==
    <<"A", "B", "C", "D", "E", "F", "G", "H", "I", "J", "K", "L", "M", "N", "O", "P",
      "Q", "R", "S", "T", "U", "V", "W", "X", "Y", "Z">>

LOWERCASE ==
    <<"a", "b", "c", "d", "e", "f", "g", "h", "i", "j", "k", "l", "m", "n", "o", "p",
      "q", "r", "s", "t", "u", "v", "w", "x", "y", "z">>

\* str.lower() on one character
LowerChar(c) ==
    IF \E i \in 1..Len(UPPERCASE) : UPPERCASE[i] = c
    THEN LOWERCASE[CHOOSE i \in 1..Len(UPPERCASE) : UPPERCASE[i] = c]
    ELSE c

\* str.lower()
Lower(s) == [i \in 1..Len(s) |-> LowerChar(s[i])]

ELLIPSIS ==
    <<".", ".", ".">>

highlight_style ==
    <<"b", "a", "c", "k", "g", "r", "o", "u", "n", "d", "-", "c", "o", "l", "o", "r",
      ":", " ", "#", "9", "8", "1", "c", "a", "3", ";", " ", "f", "o", "n", "t", "-",
      "w", "e", "i", "g", "h", "t", ":", " ", "b", "o", "l", "d", ";", " ", "c", "o",
      "l", "o", "r", ":", " ", "w", "h", "i", "t", "e", ";", " ", "p", "a", "d", "d",
      "i", "n", "g", ":", " ", "2", "p", "x", ";", " ", "b", "o", "r", "d", "e", "r",
      "-", "r", "a", "d", "i", "u", "s", ":", " ", "2", "p", "x", ";">>

SPAN_OPEN_HEAD ==
    <<"<", "s", "p", "a", "n", " ", "s", "t", "y", "l", "e", "=", "'">>

SPAN_OPEN_TAIL ==
    <<"'", ">">>

SPAN_CLOSE ==
    <<"<", "/", "s", "p", "a", "n", ">">>

\* str.split(sep), scanning from i with cur the piece being read
RECURSIVE SplitFrom(_, _, _, _)
SplitFrom(s, i, cur, sep) ==
    IF i > Len(s) THEN <<cur>>
    ELSE IF StartsAt(s, i, sep)
         THEN <<cur>> \o SplitFrom(s, i + Len(sep), <<>>, sep)
         ELSE SplitFrom(s, i + 1, Append(cur, s[i]), sep)

Split(s, sep) == SplitFrom(s, 1, <<>>, sep)

NonEmpty(x) == x # <<>>

\* segments = [seg.strip() for seg in raw_text.split("...") if seg.strip()]
Segments(snippet) ==
    LET pieces == Split(snippet, ELLIPSIS)
    IN  SelectSeq([i \in 1..Len(pieces) |-> Strip(pieces[i])], NonEmpty)

\* an entry counted as found when it holds any one of the segments
AllFound_Any(csv_input, segments) ==
    \E k \in 1..Len(segments) : Contains(Lower(csv_input), Lower(segments[k]))

\* all(seg.lower() in csv_lower for seg in segments)
AllFound(csv_input, segments) ==
    \A k \in 1..Len(segments) : Contains(Lower(csv_input), Lower(segments[k]))

\* a loop without the break: the last entry holding every segment wins
FirstMatchFrom_Last(entries, i, segments) ==
    LET hits == {j \in i..Len(entries) : AllFound(entries[j], segments)}
    IN  IF hits = {} THEN 0 ELSE CHOOSE j \in hits : \A h \in hits : h <= j

\* the loop over the corpus: the position of the entry the loop breaks at,
\* 0 when it runs to the end
RECURSIVE FirstMatchFrom(_, _, _)
FirstMatchFrom(entries, i, segments) ==
    IF i > Len(entries) THEN 0
    ELSE IF AllFound(entries[i], segments) THEN i
    ELSE FirstMatchFrom(entries, i + 1, segments)

\* matched_segments as the two branches set them
SegmentsOf(snippet) ==
    IF Contains(snippet, ELLIPSIS) THEN Segments(snippet) ELSE <<snippet>>

\* One pass of the highlight loop: the segment is searched, ignoring case,
\* in the text as annotated so far, and the first occurrence is wrapped in
\* the span.  st.final is the text; st.origin and st.spans are bookkeeping
\* of the model: for every character of final the position it has in the
\* matched entry (0 for markup), and for every segment what was wrapped.
HighlightOne(st, segment) ==
    LET p == Find(Lower(st.final), Lower(segment))
        n == Len(segment)
        open == SPAN_OPEN_HEAD \o highlight_style \o SPAN_OPEN_TAIL
    IN  IF p = 0
        THEN [final |-> st.final, origin |-> st.origin,
              spans |-> Append(st.spans, [found |-> FALSE, at |-> <<>>, text |-> <<>>])]
        ELSE [final |-> SubSeq(st.final, 1, p - 1) \o open \o SubSeq(st.final, p, p + n - 1)
                          \o SPAN_CLOSE \o SubSeq(st.final, p + n, Len(st.final)),
              origin |-> SubSeq(st.origin, 1, p - 1) \o [i \in 1..Len(open) |-> 0]
                          \o SubSeq(st.origin, p, p + n - 1)
                          \o [i \in 1..Len(SPAN_CLOSE) |-> 0]
                          \o SubSeq(st.origin, p + n, Len(st.origin)),
              spans |-> Append(st.spans,
                               [found |-> TRUE, at |-> SubSeq(st.origin, p, p + n - 1),
                                text |-> SubSeq(st.final, p, p + n - 1)])]

RECURSIVE HighlightFrom(_, _, _)
HighlightFrom(st, segments, k) ==
    IF k > Len(segments) THEN st
    ELSE HighlightFrom(HighlightOne(st, segments[k]), segments, k + 1)

\* the whole comparison for one selected row: what is shown.  source_text
\* is the snippet shown after the warning when nothing was chosen.
Compare(entries, snippet) ==
    IF Len(entries) = 0
    THEN [status |-> "no csv", best_csv_match |-> None, matched_segments |-> <<>>,
          final |-> <<>>, spans |-> <<>>, source_text |-> snippet]
    ELSE LET i == FirstMatchFrom(entries, 1, SegmentsOf(snippet))
         IN  IF i = 0 \/ entries[i] = <<>>
             THEN [status |-> "not found", best_csv_match |-> None,
                   matched_segments |-> <<>>, final |-> <<>>, spans |-> <<>>,
                   source_text |-> snippet]
             ELSE LET h == HighlightFrom([final |-> entries[i],
                                          origin |-> [j \in 1..Len(entries[i]) |-> j],
                                          spans |-> <<>>],
                                         SegmentsOf(snippet), 1)
                  IN  [status |-> "matched", best_csv_match |-> entries[i],
                       matched_segments |-> SegmentsOf(snippet),
                       final |-> h.final, spans |-> h.spans, source_text |-> <<>>]

-----------------------------------------------------------------------------
(* The corpora and snippets the matcher is applied to.  The entries of a   *)
(* corpus are distinct and non-empty: load_csv_reference drops duplicates  *)
(* and reads every cell as a string.                                       *)

EntryCatStory ==
    <<"T", "h", "e", " ", "c", "a", "t", " ", "s", "a", "t", ".", " ", "T", "h", "e",
      " ", "c", "a", "t", " ", "t", "h", "e", "n", " ", "r", "a", "n", " ", "a", "w",
      "a", "y", ".">>

EntryCatColor ==
    <<"M", "y", " ", "c", "a", "t", " ", "i", "s", " ", "o", "f", " ", "w", "h", "i",
      "t", "e", " ", "c", "o", "l", "o", "r", ".">>

EntryDogs ==
    <<"D", "o", "g", "s", " ", "r", "a", "n", " ", "a", "w", "a", "y", ".">>

SegTheCatSat ==
    <<"T", "h", "e", " ", "c", "a", "t", " ", "s", "a", "t">>

SegRanAway ==
    <<"r", "a", "n", " ", "a", "w", "a", "y">>

SegCatSatUpper ==
    <<"C", "A", "T", " ", "S", "A", "T">>

SegCat ==
    <<"c", "a", "t">>

SegColor ==
    <<"c", "o", "l", "o", "r">>

SegElephants ==
    <<"e", "l", "e", "p", "h", "a", "n", "t", "s", " ", "f", "l", "e", "w">>

EntryPool == {EntryCatStory, EntryCatColor, EntryDogs}

SegmentPool == {SegTheCatSat, SegRanAway, SegCatSatUpper, SegCat, SegColor, SegElephants}

Corpora ==
    {c \in UNION {[1..n -> EntryPool] : n \in 0..MaxCorpus} :
        \A i, j \in 1..Len(c) : i # j => c[i] # c[j]}

Snippets ==
    SegmentPool
    \cup {a \o <<" ">> \o ELLIPSIS \o <<" ">> \o b : a, b \in SegmentPool}
    \cup {<<>>, ELLIPSIS, ELLIPSIS \o <<" ">> \o ELLIPSIS}

NotCompared == [status |-> "not run", best_csv_match |-> None, matched_segments |-> <<>>,
                final |-> <<>>, spans |-> <<>>, source_text |-> <<>>]

MatchInit ==
    /\ corpus \in Corpora
    /\ raw_text \in Snippets
    /\ shown = NotCompared
    /\ RecIdle /\ GenIdle /\ NormIdle /\ LedgerIdle /\ SubstIdle
    /\ ConcIdle /\ CacheIdle /\ FilterIdle

Match ==
    /\ shown.status = "not run"
    /\ shown' = Compare(corpus, raw_text)
    /\ UNCHANGED <<corpus, raw_text, recVars, genVars, normVars, ledgerVars, substVars,
                 concVars, cacheVars, filterVars>>

MatchNext == Match

SpecMatch == MatchInit /\ [][MatchNext]_vars

-----------------------------------------------------------------------------
(* Saving a score entry, the save button handler of                        *)
(* evaluation/evaluation.py lines 714-728.                                 *)

\* the first option of every score radio, shown as a dash
DASH == "-"

\* a radio value stored as it is shown
Stored_AsShown(choice) == choice

\* a radio value as it is stored: the dash is stored as the empty string
Stored(choice) == IF choice # DASH THEN choice ELSE ""

\* d[key] = value on a mapping held as a function
DictSet(d, key, value) ==
    [k \in DOMAIN d \cup {key} |-> IF k = key THEN value ELSE d[k]]

\* a save that keeps what the previous entry held where the form is empty
SetEntry_Merge(all_scores, file_name, unique_id, form) ==
    LET file_scores == DictGet(all_scores, file_name, <<>>)
        old == DictGet(file_scores, unique_id, <<>>)
        new == FullEntry(Stored(form.sf), Stored(form.sa), Stored(form.ea),
                         Stored(form.si), form.notes)
    IN  DictSet(all_scores, file_name,
                DictSet(file_scores, unique_id,
                        [k \in DOMAIN old \cup DOMAIN new |->
                           IF k \in DOMAIN new /\ (new[k] # "" \/ k \notin DOMAIN old)
                           THEN new[k] ELSE old[k]]))

\* a save that starts the mapping of the file anew
SetEntry_Alone(all_scores, file_name, unique_id, form) ==
    DictSet(all_scores, file_name,
            DictSet(<<>>, unique_id,
                    FullEntry(Stored(form.sf), Stored(form.sa), Stored(form.ea),
                              Stored(form.si), form.notes)))

\* lines 717-726: the file mapping is created when absent and the entry of
\* the key is assigned the four stored scores and the notes of the form
SetEntry(all_scores, file_name, unique_id, form) ==
    LET file_scores == DictGet(all_scores, file_name, <<>>)
    IN  DictSet(all_scores, file_name,
                DictSet(file_scores, unique_id,
                        FullEntry(Stored(form.sf), Stored(form.sa), Stored(form.ea),
                                  Stored(form.si), form.notes)))

\* what the rater has in the four radios and the notes box
Forms ==
    { [sf |-> "5", sa |-> "4", ea |-> "3", si |-> "2", notes |-> "y"],
      [sf |-> DASH, sa |-> DASH, ea |-> DASH, si |-> DASH, notes |-> ""],
      [sf |-> "1", sa |-> DASH, ea |-> "5", si |-> DASH, notes |-> ""] }

UniqueIds == {"0", "1"}

\* score files a save can find: none, one json.load rejects, and files
\* holding entries of the current and of the two older formats
LedgerFiles ==
    { NoFile,
      [exists |-> TRUE, readable |-> FALSE, content |-> <<>>],
      SaveScores([f \in {"f1"} |-> [u \in {"0"} |-> FullEntry("3", "", "", "", "x")]]),
      SaveScores([f \in {"f1"} |-> [u \in {"0"} |-> [score |-> "3", notes |-> "n"]]]),
      SaveScores([f \in {"f1"} |->
                    [u \in {"0", "1"} |-> IF u = "0" THEN StrEntry("4")
                                          ELSE FullEntry("2", "2", "2", "2", "x")]]),
      SaveScores([f \in {"f2"} |->
                    [u \in {"1"} |-> [semantic_fidelity |-> "3", notes |-> "x",
                                      rater |-> "r"]]]) }

LedgerInit ==
    /\ score_file \in LedgerFiles
    /\ saves = 0
    /\ saved = <<>>
    /\ RecIdle /\ GenIdle /\ NormIdle /\ MatchIdle /\ SubstIdle
    /\ ConcIdle /\ CacheIdle /\ FilterIdle

\* The handler.  saved keeps the key and the form of the last save, and
\* before, the entry the file held under the key when the handler began
\* (empty when there was none).
Save ==
    \E file_name \in FileNames, unique_id \in UniqueIds, form \in Forms :
        /\ saves < MaxSaves
        /\ score_file' = SaveScores(SetEntry(LoadScores(score_file), file_name,
                                             unique_id, form))
        /\ saves' = saves + 1
        /\ saved' = [file |-> file_name, uid |-> unique_id, form |-> form,
                     before |-> DictGet(DictGet(LoadScores(score_file), file_name, <<>>),
                                        unique_id, <<>>)]
        /\ UNCHANGED <<recVars, genVars, normVars, matchVars, substVars,
                 concVars, cacheVars, filterVars>>

LedgerNext == Save

SpecLedger == LedgerInit /\ [][LedgerNext]_vars

-----------------------------------------------------------------------------
(* A review session on one file, evaluation/evaluation.py: every run of    *)
(* the script loads the table anew (lines 285-295), and the save button    *)
(* handler (lines 714-735) writes the entry of the selected row and, when  *)
(* the row is not the last one, selects the next row and reruns the        *)
(* script.  No filter is applied, so the filtered table is the table.      *)

ReviewElems ==
    { [kind |-> "list", cells |-> SubSeq(CellNames, 1, Len(COLUMNS_V3)), map |-> NoMap],
      [kind |-> "list", cells |-> SubSeq(CellNames, 1, Len(COLUMNS_V3) - 1), map |-> NoMap],
      DictOf({"relationship"}),
      DictOf({"causal"}),
      ScalarElem }

ReviewData ==
    {[kind |-> "object", elems |-> <<>>]}
    \cup {[kind |-> "array", elems |-> e] :
            e \in {x \in UNION {[1..n -> ReviewElems] : n \in 0..MaxRows} :
                      (x # <<>> /\ x[1].kind = "list")
                          => \A i \in 1..Len(x) : x[i].kind = "list"}}

ReviewForms ==
    { [sf |-> "5", sa |-> "4", ea |-> "3", si |-> "2", notes |-> "y"],
      [sf |-> DASH, sa |-> DASH, ea |-> DASH, si |-> DASH, notes |-> ""] }

ReviewInit ==
    /\ raw_data \in ReviewData
    /\ table = NotLoaded
    /\ score_file \in StoredLedgers
    /\ saves = 0
    /\ saved = <<>>
    /\ RecIdle /\ GenIdle /\ MatchIdle /\ SubstIdle
    /\ ConcIdle /\ CacheIdle /\ FilterIdle

\* a run of the script: load_json_data with the score file as it is now
Load ==
    /\ table' = load_json_data(raw_data, SelectedFile, score_file)
    /\ UNCHANGED <<raw_data, ledgerVars, recVars, genVars, matchVars, substVars,
                 concVars, cacheVars, filterVars>>

\* the save button on row i of the table
SaveRow ==
    /\ table.error = "none"
    /\ saves < MaxSaves
    /\ \E i \in 1..Len(table.rows), form \in ReviewForms :
         LET unique_id == Str(table.rows[i].Unique_ID)
             after == SaveScores(SetEntry(LoadScores(score_file), SelectedFile,
                                          unique_id, form))
         IN  /\ score_file' = after
             /\ saved' = [file |-> SelectedFile, uid |-> unique_id, form |-> form,
                          before |-> DictGet(DictGet(LoadScores(score_file), SelectedFile,
                                                     <<>>), unique_id, <<>>)]
             /\ table' = IF i < Len(table.rows)
                         THEN load_json_data(raw_data, SelectedFile, after)
                         ELSE table
    /\ saves' = saves + 1
    /\ UNCHANGED <<raw_data, recVars, genVars, matchVars, substVars,
                 concVars, cacheVars, filterVars>>

ReviewNext == Load \/ SaveRow

SpecReview == ReviewInit /\ [][ReviewNext]_vars

-----------------------------------------------------------------------------
(* Substituting the input into the prompt template, lines 176-187 of       *)
(* engine/extractor_page.py (the same code is in engine/extractor.py).     *)

DIGITS == <<"0", "1", "2", "3", "4", "5", "6", "7", "8", "9">>

\* the characters of the class [A-Za-z0-9_]
IdentChars ==
    {UPPERCASE[i] : i \in 1..Len(UPPERCASE)} \cup {LOWERCASE[i] : i \in 1..Len(LOWERCASE)}
    \cup {DIGITS[i] : i \in 1..Len(DIGITS)} \cup {"_"}

EMPTY_BRACES == <<"{", "}">>

INPUT_BRACES == <<"{", "i", "n", "p", "u", "t", "}">>

INPUT_LABEL == <<NL, NL, "I", "n", "p", "u", "t", ":", " ">>

\* the position after the longest run of identifier characters from i
RECURSIVE IdentEnd(_, _)
IdentEnd(s, i) ==
    IF i <= Len(s) /\ s[i] \in IdentChars THEN IdentEnd(s, i + 1) ELSE i

\* the pattern of an opening brace, one or more identifier characters and
\* a closing brace matches at i
PlaceholderAt(s, i) ==
    /\ s[i] = "{"
    /\ IdentEnd(s, i + 1) > i + 1
    /\ IdentEnd(s, i + 1) <= Len(s)
    /\ s[IdentEnd(s, i + 1)] = "}"

\* re.search of that pattern: the start of the leftmost match, 0 for None
SearchPlaceholder(s) ==
    LET hits == {i \in 1..Len(s) : PlaceholderAt(s, i)}
    IN  IF hits = {} THEN 0 ELSE CHOOSE i \in hits : \A j \in hits : i <= j

\* m.group(0)
PlaceholderText(s) ==
    SubSeq(s, SearchPlaceholder(s), IdentEnd(s, SearchPlaceholder(s) + 1))

\* str.replace(pat, rep, 1)
ReplaceFirst(s, pat, rep) ==
    LET p == Find(s, pat)
    IN  IF p = 0 THEN s
        ELSE SubSeq(s, 1, p - 1) \o rep \o SubSeq(s, p + Len(pat), Len(s))

\* a substitution that looks for a named placeholder before the empty braces
FinalPrompt_NameFirst(template, input) ==
    IF SearchPlaceholder(template) # 0
    THEN ReplaceFirst(template, PlaceholderText(template), input)
    ELSE IF Contains(template, EMPTY_BRACES)
    THEN Replace(template, EMPTY_BRACES, input)
    ELSE template \o INPUT_LABEL \o input

\* final_prompt
FinalPrompt(template, input) ==
    IF Contains(template, EMPTY_BRACES)
    THEN Replace(template, EMPTY_BRACES, input)
    ELSE IF Contains(template, INPUT_BRACES)
    THEN Replace(template, INPUT_BRACES, input)
    ELSE IF SearchPlaceholder(template) # 0
    THEN ReplaceFirst(template, PlaceholderText(template), input)
    ELSE template \o INPUT_LABEL \o input

TplHi ==
    <<"H", "i", " ", "{", "}">>

TplTwoEmpty ==
    <<"{", "}", " ", "a", "n", "d", " ", "{", "}">>

TplEmptyAndName ==
    <<"{", "}", " ", "{", "n", "a", "m", "e", "}">>

TplHelloName ==
    <<"H", "e", "l", "l", "o", " ", "{", "n", "a", "m", "e", "}">>

TplPlain ==
    <<"p", "l", "a", "i", "n">>

TplTwoInput ==
    <<"a", " ", "{", "i", "n", "p", "u", "t", "}", " ", "b", " ", "{", "i", "n",
      "p", "u", "t", "}">>

TplInputAndName ==
    <<"{", "n", "a", "m", "e", "}", " ", "{", "i", "n", "p", "u", "t", "}">>

TplNameTwice ==
    <<"{", "n", "a", "m", "e", "}", " ", "{", "n", "a", "m", "e", "}">>

TplTwoNames ==
    <<"{", "a", "}", " ", "o", "r", " ", "{", "b", "_", "1", "}">>

TplNotIdent ==
    <<"{", "x", " ", "y", "}", " ", "{", "k", "}">>

TplJson ==
    <<"{", "\"", "k", "\"", ":", " ", "1", "}", " ", "f", "o", "r", " ", "{",
      "}">>

TplJsonOnly ==
    <<"{", "\"", "k", "\"", ":", " ", "1", "}">>

TplOpen ==
    <<"l", "i", "s", "t", " ", "{">>

TplSpaced ==
    <<"{", " ", "}", " ", "e", "n", "d">>

TplDash ==
    <<"{", "a", "-", "b", "}">>

InBob ==
    <<"B", "o", "b">>

InEmptyBraces ==
    <<"{", "}">>

InName ==
    <<"{", "n", "a", "m", "e", "}">>

InTwoWords ==
    <<"a", " ", "b">>

\* templates and inputs the form can hold when the substitution is reached:
\* neither is empty
PromptTemplates ==
    {TplHi, TplTwoEmpty, TplEmptyAndName, TplHelloName, TplPlain,
     TplTwoInput, TplInputAndName, TplNameTwice, TplTwoNames, TplNotIdent,
     TplJson, TplJsonOnly, TplOpen, TplSpaced, TplDash}

UserInputs == {InBob, InEmptyBraces, InName, InTwoWords}

NotSubstituted == <<"not run">>

SubstInit ==
    /\ prompt_template \in PromptTemplates
    /\ user_input \in UserInputs
    /\ final_prompt = NotSubstituted
    /\ RecIdle /\ GenIdle /\ NormIdle /\ MatchIdle /\ LedgerIdle
    /\ ConcIdle /\ CacheIdle /\ FilterIdle

Substitute ==
    /\ final_prompt = NotSubstituted
    /\ final_prompt' = FinalPrompt(prompt_template, user_input)
    /\ UNCHANGED <<prompt_template, user_input, recVars, genVars, normVars, matchVars,
                   ledgerVars,
                 concVars, cacheVars, filterVars>>

SubstNext == Substitute

SpecSubst == SubstInit /\ [][SubstNext]_vars

-----------------------------------------------------------------------------
(* Two sessions saving to the same score file, evaluation/evaluation.py    *)
(* lines 715-726 and 67-75.  Streamlit runs the script of every session in *)
(* a thread of its own and the code takes no lock, so the steps of two     *)
(* save handlers interleave: the read of load_scores, the open of line 71, *)
(* which truncates the file, and the end of the with block, which writes   *)
(* the buffered text at offset 0 of the file the session opened.  A write  *)
(* does not shorten the file: what a longer text left beyond the end of    *)
(* the written one stays.                                                  *)

Sessions == {"A", "B"}

RECURSIVE SumOver(_, _)
SumOver(lens, keys) ==
    IF keys = {} THEN 0
    ELSE LET k == CHOOSE x \in keys : TRUE
         IN  lens[k] + SumOver(lens, keys \ {k})

\* length of the text json.dump(..., indent=4) writes for a mapping at
\* nesting depth d, lens giving the length of the text of every value
IndentedLen(d, lens) ==
    IF DOMAIN lens = {} THEN 2
    ELSE 2 + SumOver([k \in DOMAIN lens |-> 4 * (d + 1) + Len(k) + 4 + lens[k]],
                     DOMAIN lens)
           + 2 * (Cardinality(DOMAIN lens) - 1) + 1 + 4 * d + 1

\* length of the text save_scores writes for the mapping scores
DumpLen(scores) ==
    IndentedLen(0, [f \in DOMAIN scores |->
        IndentedLen(1, [u \in DOMAIN scores[f] |->
            IndentedLen(2, [k \in DOMAIN scores[f][u] |-> Len(scores[f][u][k]) + 2])])])

\* line 71: open(..., 'w') leaves an empty file, which json.load rejects
Truncated == [exists |-> TRUE, readable |-> FALSE, content |-> <<>>]

\* line 72 and the end of the with block: the text of scores is written
\* at offset 0 of a file of length len
Written(len, scores) ==
    IF len <= DumpLen(scores) THEN SaveScores(scores) ELSE Unparsable(scores)

ConcFiles ==
    { NoFile,
      SaveScores([f \in {"f1"} |-> [u \in {"0"} |-> FullEntry("3", "", "", "", "x")]]) }

ConcInit ==
    /\ score_file \in ConcFiles
    /\ file_len = IF score_file.exists THEN DumpLen(score_file.content) ELSE 0
    /\ sessions = [s \in Sessions |-> [pc |-> "idle", all_scores |-> <<>>]]
    /\ saves = 0
    /\ saved = <<>>
    /\ RecIdle /\ GenIdle /\ NormIdle /\ MatchIdle /\ SubstIdle
    /\ CacheIdle /\ FilterIdle

\* lines 715-726: the session reads the file and sets its entry
ReadStep(s) ==
    /\ sessions[s].pc = "idle"
    /\ saves < MaxSaves
    /\ \E file_name \in FileNames, unique_id \in UniqueIds, form \in Forms :
         sessions' = [sessions EXCEPT
                        ![s] = [pc |-> "read",
                                all_scores |-> SetEntry(LoadScores(score_file), file_name,
                                                        unique_id, form)]]
    /\ saves' = saves + 1
    /\ UNCHANGED <<score_file, saved, file_len, recVars, genVars, normVars, matchVars,
                   substVars, cacheVars, filterVars>>

\* line 71: the session opens the file for writing
OpenStep(s) ==
    /\ sessions[s].pc = "read"
    /\ sessions' = [sessions EXCEPT ![s].pc = "open"]
    /\ score_file' = Truncated
    /\ file_len' = 0
    /\ UNCHANGED <<saves, saved, recVars, genVars, normVars, matchVars, substVars,
                   cacheVars, filterVars>>

\* line 72 and the end of the with block: the text reaches the file.  saved
\* keeps the last writer and the mapping it wrote.
CloseStep(s) ==
    /\ sessions[s].pc = "open"
    /\ sessions' = [sessions EXCEPT ![s].pc = "idle"]
    /\ score_file' = Written(file_len, sessions[s].all_scores)
    /\ file_len' = IF file_len <= DumpLen(sessions[s].all_scores)
                   THEN DumpLen(sessions[s].all_scores) ELSE file_len
    /\ saved' = [session |-> s, all_scores |-> sessions[s].all_scores]
    /\ UNCHANGED <<saves, recVars, genVars, normVars, matchVars, substVars,
                   cacheVars, filterVars>>

ConcNext == \E s \in Sessions : ReadStep(s) \/ OpenStep(s) \/ CloseStep(s)

SpecConcurrent == ConcInit /\ [][ConcNext]_vars

-----------------------------------------------------------------------------
(* The cached load of the table, evaluation/evaluation.py lines 95-105 and *)
(* 285-296.  load_json_data is wrapped by st.cache_data: a call whose      *)
(* arguments (path, file name, modification time of the score file) were   *)
(* seen before returns the stored result without running the function.     *)
(* The modification time of a file is the clock reading at its last write, *)
(* in units of the resolution of the time stamps of the file system.       *)

\* get_scores_file_mtime: 0 when the file is missing
get_scores_file_mtime(file, file_mtime) == IF file.exists THEN file_mtime ELSE 0

\* the call of line 295 through the cache
CachedLoad(store, data, selected_file_name, file, file_mtime) ==
    LET key == <<selected_file_name, get_scores_file_mtime(file, file_mtime)>>
    IN  IF key \in DOMAIN store
        THEN [table |-> store[key], cache |-> store]
        ELSE LET result == load_json_data(data, selected_file_name, file)
             IN  [table |-> result, cache |-> DictSet(store, key, result)]

CacheData ==
    { [kind |-> "array", elems |-> <<DictOf({"relationship"})>>],
      [kind |-> "array", elems |-> <<DictOf({"relationship"}), DictOf({"causal"})>>],
      [kind |-> "array",
       elems |-> <<[kind |-> "list", cells |-> SubSeq(CellNames, 1, Len(COLUMNS_V3)),
                    map |-> NoMap]>>] }

CacheFiles ==
    { NoFile,
      SaveScores([f \in {"f1"} |-> [u \in {"0"} |-> FullEntry("3", "", "", "", "x")]]) }

\* the score file, when there is one, was written before the session began
CacheInit ==
    /\ raw_data \in CacheData
    /\ table = NotLoaded
    /\ score_file \in CacheFiles
    /\ mtime = IF score_file.exists THEN 1 ELSE 0
    /\ clock = 2
    /\ cache = <<>>
    /\ ref_cache = <<>>
    /\ saves = 0
    /\ saved = <<>>
    /\ files = <<>> /\ log = <<>> /\ last = <<>>
    /\ RecIdle /\ MatchIdle /\ SubstIdle /\ ConcIdle /\ FilterIdle

\* a run of the script; saved.loaded tells that the table was loaded after
\* the last save
CacheLoad ==
    /\ LET loaded == CachedLoad(cache, raw_data, SelectedFile, score_file, mtime)
       IN  /\ table' = loaded.table
           /\ cache' = loaded.cache
    /\ saved' = IF saved = <<>> THEN saved ELSE [saved EXCEPT !.loaded = TRUE]
    /\ UNCHANGED <<raw_data, score_file, saves, mtime, ref_cache, clock, files, log, last,
                   recVars, matchVars, substVars, concVars, filterVars>>

\* the save button on row i of the table: the file is written now, and the
\* script runs again when the row is not the last one
CacheSaveRow ==
    /\ table.error = "none"
    /\ saves < MaxSaves
    /\ \E i \in 1..Len(table.rows), form \in ReviewForms :
         LET unique_id == Str(table.rows[i].Unique_ID)
             after == SaveScores(SetEntry(LoadScores(score_file), SelectedFile,
                                          unique_id, form))
             loaded == CachedLoad(cache, raw_data, SelectedFile, after, clock)
         IN  /\ score_file' = after
             /\ mtime' = clock
             /\ saved' = [file |-> SelectedFile, uid |-> unique_id, form |-> form,
                          before |-> DictGet(DictGet(LoadScores(score_file), SelectedFile,
                                                     <<>>), unique_id, <<>>),
                          loaded |-> i < Len(table.rows)]
             /\ table' = IF i < Len(table.rows) THEN loaded.table ELSE table
             /\ cache' = IF i < Len(table.rows) THEN loaded.cache ELSE cache
    /\ saves' = saves + 1
    /\ UNCHANGED <<raw_data, ref_cache, clock, files, log, last,
                   recVars, matchVars, substVars, concVars, filterVars>>

\* time passes
Elapse ==
    /\ clock <= MaxClock
    /\ clock' = clock + 1
    /\ UNCHANGED <<files, log, last, recVars, normVars, matchVars, ledgerVars, substVars,
                   concVars, cacheVars, filterVars>>

CacheNext == CacheLoad \/ CacheSaveRow \/ Elapse

SpecCache == CacheInit /\ [][CacheNext]_vars

-----------------------------------------------------------------------------
(* The cached load of the reference CSV, evaluation/evaluation.py lines    *)
(* 199-212 and 257-262, with generation_log.csv, the default reference,    *)
(* receiving the rows append_to_log writes.  load_csv_reference is wrapped *)
(* by st.cache_data and takes the path alone.  The inputs of the model are *)
(* texts that pd.read_csv and astype(str) give back as they were written.  *)

LOG_FILE == "generation_log.csv"

RECURSIVE DropDuplicates(_)
DropDuplicates(entries) ==
    IF entries = <<>> THEN <<>>
    ELSE LET front == DropDuplicates(SubSeq(entries, 1, Len(entries) - 1))
             e == entries[Len(entries)]
         IN  IF \E i \in 1..Len(front) : front[i] = e THEN front ELSE Append(front, e)

\* the function itself: the input column of the file, without duplicates
load_csv_reference(lg) == DropDuplicates([i \in 1..Len(lg) |-> lg[i].input])

\* the call of line 261 through the cache
CachedReference(store, file_path, lg) ==
    IF file_path \in DOMAIN store
    THEN [corpus |-> store[file_path], ref_cache |-> store]
    ELSE [corpus |-> load_csv_reference(lg),
          ref_cache |-> DictSet(store, file_path, load_csv_reference(lg))]

CorpusInit ==
    /\ files = <<>>
    /\ log = <<>>
    /\ clock = 0
    /\ last = [n |-> 0, outcome |-> "none", parsed_json |-> None, raw |-> <<>>]
    /\ corpus = <<>>
    /\ raw_text = <<>>
    /\ shown = <<>>
    /\ ref_cache = <<>>
    /\ cache = <<>>
    /\ mtime = 0
    /\ RecIdle /\ NormIdle /\ LedgerIdle /\ SubstIdle /\ ConcIdle /\ FilterIdle

\* a run of the review page: the reference is loaded for the sidebar
LoadReference ==
    /\ LET loaded == CachedReference(ref_cache, LOG_FILE, log)
       IN  /\ corpus' = loaded.corpus
           /\ ref_cache' = loaded.ref_cache
    /\ UNCHANGED <<raw_text, shown, cache, mtime, genVars, recVars, normVars, ledgerVars,
                   substVars, concVars, filterVars>>

CorpusNext == Generate \/ Tick \/ LoadReference

SpecCorpus == CorpusInit /\ [][CorpusNext]_vars

-----------------------------------------------------------------------------
(* The review page with its two filters, evaluation/evaluation.py lines    *)
(* 285-341, 416-456 and 714-735.  Every run of the script loads the table, *)
(* applies the two multiselect filters and renumbers the filtered rows;    *)
(* the row ticked in the detail view is found by its position in the       *)
(* filtered table.  df_filtered keeps the two selections with the rows.    *)

\* the two columns the filters act on
pattern_col(schema_version) == IF schema_version = "v4" THEN "Pattern Type" ELSE "Pattern"

causal_type_col(schema_version) ==
    IF schema_version = "v4" THEN "Sentence Type" ELSE "Causal Type"

\* df[col].unique()
Unique(tbl, col) == {tbl.rows[i].cells[col] : i \in 1..Len(tbl.rows)}

\* filtered rows that take their position in the filtered table as their id
Filtered_Renumbered(tbl, selected_patterns, selected_causal_types) ==
    LET Keep(row) ==
            /\ selected_patterns # {}
                 => row.cells[pattern_col(tbl.schema_version)] \in selected_patterns
            /\ selected_causal_types # {}
                 => row.cells[causal_type_col(tbl.schema_version)] \in selected_causal_types
        kept == SelectSeq(tbl.rows, Keep)
    IN  [i \in 1..Len(kept) |-> [kept[i] EXCEPT !.Unique_ID = i - 1]]

\* lines 336-341: the rows whose two columns hold a selected value, in
\* their order, every column kept; an empty selection filters nothing
Filtered(tbl, selected_patterns, selected_causal_types) ==
    LET Keep(row) ==
            /\ selected_patterns # {}
                 => row.cells[pattern_col(tbl.schema_version)] \in selected_patterns
            /\ selected_causal_types # {}
                 => row.cells[causal_type_col(tbl.schema_version)] \in selected_causal_types
    IN  SelectSeq(tbl.rows, Keep)

FilterElems == { DictOf({"pattern_type"}), DictOf({"relationship"}), DictOf({"causal"}) }

FilterData ==
    {[kind |-> "array", elems |-> e] :
        e \in UNION {[1..n -> FilterElems] : n \in 1..MaxRows}}

FilterFiles ==
    { NoFile,
      SaveScores([f \in {"f1"} |-> [u \in {"1"} |-> FullEntry("3", "", "", "", "x")]]) }

FilterInit ==
    /\ raw_data \in FilterData
    /\ table = NotLoaded
    /\ df_filtered = [selected_patterns |-> {}, selected_causal_types |-> {}, rows |-> <<>>]
    /\ score_file \in FilterFiles
    /\ saves = 0
    /\ saved = <<>>
    /\ RecIdle /\ GenIdle /\ MatchIdle /\ SubstIdle /\ ConcIdle /\ CacheIdle

\* a run of the script with the selections the rater has made in the two
\* multiselects
FilterRun ==
    LET loaded == load_json_data(raw_data, SelectedFile, score_file)
    IN  /\ table' = loaded
        /\ \E selected_patterns \in SUBSET Unique(loaded, pattern_col(loaded.schema_version)),
              selected_causal_types
                  \in SUBSET Unique(loaded, causal_type_col(loaded.schema_version)) :
              df_filtered' = [selected_patterns |-> selected_patterns,
                              selected_causal_types |-> selected_causal_types,
                              rows |-> Filtered(loaded, selected_patterns,
                                                selected_causal_types)]
        /\ UNCHANGED <<raw_data, ledgerVars, recVars, genVars, matchVars, substVars,
                       concVars, cacheVars>>

\* the save button with the row at position p of the filtered table ticked;
\* saved keeps the position with the arguments of the save
FilterSaveRow ==
    /\ saves < MaxSaves
    /\ \E p \in 1..Len(df_filtered.rows), form \in ReviewForms :
         LET unique_id == Str(df_filtered.rows[p].Unique_ID)
             after == SaveScores(SetEntry(LoadScores(score_file), SelectedFile,
                                          unique_id, form))
             loaded == load_json_data(raw_data, SelectedFile, after)
         IN  /\ score_file' = after
             /\ saved' = [file |-> SelectedFile, uid |-> unique_id, form |-> form,
                          before |-> DictGet(DictGet(LoadScores(score_file), SelectedFile,
                                                     <<>>), unique_id, <<>>),
                          position |-> p]
             /\ table' = IF p < Len(df_filtered.rows) THEN loaded ELSE table
             /\ df_filtered' =
                  IF p < Len(df_filtered.rows)
                  THEN [df_filtered EXCEPT
                          !.rows = Filtered(loaded, df_filtered.selected_patterns,
                                            df_filtered.selected_causal_types)]
                  ELSE df_filtered
    /\ saves' = saves + 1
    /\ UNCHANGED <<raw_data, recVars, genVars, matchVars, substVars, concVars, cacheVars>>

FilterNext == FilterRun \/ FilterSaveRow

SpecFilter == FilterInit /\ [][FilterNext]_vars

-----------------------------------------------------------------------------
(* Properties of the recovery (under SpecRecover).                         *)

\* The data elements of a text: its string and number tokens in order,
\* skipping a line comment up to the end of its own line and a block comment
\* up to its closing star-slash, and never looking for comments in a string.
RECURSIVE DataElementsFrom(_, _)
DataElementsFrom(s, i) ==
    IF i > Len(s) THEN <<>>
    ELSE IF s[i] = QUOTE
    THEN LET close == {j \in (i + 1)..Len(s) : s[j] = QUOTE}
             j == IF close = {} THEN Len(s) ELSE CHOOSE j \in close : \A k \in close : j <= k
         IN  <<SubSeq(s, i, j)>> \o DataElementsFrom(s, j + 1)
    ELSE IF s[i] \in Digits
    THEN <<SubSeq(s, i, DigitsEnd(s, i) - 1)>> \o DataElementsFrom(s, DigitsEnd(s, i))
    ELSE IF StartsAt(s, i, <<"/", "/">>)
    THEN LET nls == {j \in (i + 2)..Len(s) : s[j] = NL}
         IN  IF nls = {} THEN <<>>
             ELSE DataElementsFrom(s, CHOOSE j \in nls : \A k \in nls : j <= k)
    ELSE IF StartsAt(s, i, <<"/", "*">>) /\ Contains(SubSeq(s, i + 2, Len(s)), <<"*", "/">>)
    THEN DataElementsFrom(s, i + 2 + Find(SubSeq(s, i + 2, Len(s)), <<"*", "/">>) + 1)
    ELSE DataElementsFrom(s, i + 1)

DataElements(s) == DataElementsFrom(s, 1)

Recovered == rec.status # "not run"

\* C1: for every raw text that is valid JSON once the surrounding whitespace
\* is trimmed, the recovery succeeds and returns exactly the value that
\* parsing that text gives.
C1_RoundTrip ==
    (Recovered /\ JsonLoads(Strip(text)).ok)
        => (rec.status = "ok" /\ rec.value = JsonLoads(Strip(text)).val)

\* C2: whenever the value comes from the repaired candidate, it holds every
\* data element of the candidate substring, in the original order; a line
\* comment costs only its own line, a block comment only its own span, and
\* nothing inside a string is dropped.
C2_Conservative ==
    (Recovered /\ rec.path = "repair")
        => DataElements(rec.value) = DataElements(Candidate(Clean(text)))

\* C3: when neither the cleaned text nor the repaired candidate parses, the
\* recovery ends in UnparsableOutput and yields no value; "not json at all"
\* is such a text; and a value is only ever the parse of the cleaned text or
\* of the repaired candidate.
C3_FailureExplicit ==
    Recovered =>
        /\ (~JsonLoads(Clean(text)).ok /\ ~JsonLoads(Repaired(Clean(text))).ok)
              => (rec.status = "UnparsableOutput" /\ rec.value = None)
        /\ text = NotJson => rec.status = "UnparsableOutput"
        /\ rec.status = "UnparsableOutput" => rec.value = None
        /\ rec.status = "ok"
              => \/ (JsonLoads(Clean(text)).ok /\ rec.value = JsonLoads(Clean(text)).val)
                 \/ (JsonLoads(Repaired(Clean(text))).ok
                       /\ rec.value = JsonLoads(Repaired(Clean(text))).val)

C3_Witness ==
    /\ text = NotJson
    /\ rec.status = "UnparsableOutput"
    /\ rec.value = None

-----------------------------------------------------------------------------
(* Properties of the generation interaction (under SpecGen).               *)

\* C4: a generation that fails, because the LLM call raised or because the
\* response could not be recovered, leaves every output file and every log
\* row as they were; the output directory and the log change only in a step
\* that ends in success.
C4_FailedWritesNothing ==
    /\ [][(last'.n # last.n /\ last'.outcome \in {"error", "UnparsableOutput"})
            => (files' = files /\ log' = log)]_vars
    /\ [][(files' # files \/ log' # log) => last'.outcome = "success"]_vars

C4_Witness ==
    /\ last.outcome = "UnparsableOutput"
    /\ last.raw = NotJson
    /\ Len(log) = 1
    /\ DOMAIN files # {}

-----------------------------------------------------------------------------
(* Properties of the normalizer (under SpecNorm).                          *)

Normalized == table.error # "not run"

ListOfLists ==
    /\ raw_data.kind = "array"
    /\ raw_data.elems # <<>>
    /\ \A i \in 1..Len(raw_data.elems) : raw_data.elems[i].kind = "list"

ArrayOfDicts ==
    /\ raw_data.kind = "array"
    /\ raw_data.elems # <<>>
    /\ \A i \in 1..Len(raw_data.elems) : raw_data.elems[i].kind = "dict"

\* the entries of the selected file in the score file are all readable
LedgerReads ==
    \A i \in 1..Len(raw_data.elems) : ~GetScoreAndNotes(LoadScores(score_file), SelectedFile, Str(i - 1)).raised

\* C5: in a list-of-lists input, a row that has not exactly six columns,
\* the first or a later one, makes the normalization fail with
\* ColumnMismatch and no rows; no row is padded.
C5_ColumnCount ==
    (Normalized /\ ListOfLists /\ LedgerReads
        /\ \E i \in 1..Len(raw_data.elems) : Len(raw_data.elems[i].cells) # Len(COLUMNS_V3))
    => (table.error = "ColumnMismatch" /\ table.rows = <<>>)

Unscored == load_json_data(raw_data, SelectedFile, NoFile)

\* what the score file holds for row i of the selected file (empty: nothing)
StoredEntry(i) ==
    DictGet(DictGet(LoadScores(score_file), SelectedFile, <<>>), Str(i - 1), <<>>)

\* C11: an entry stored as a bare scalar, as a mapping with the single
\* score (and maybe notes), or as the full mapping is read into the four
\* scores and the notes without a failure: the legacy value becomes the
\* semantic fidelity and the other scores are unset.
C11_BackwardCompatibleRead ==
    (Normalized /\ Unscored.error = "none")
    => /\ table.error = "none"
       /\ Len(table.rows) = Len(Unscored.rows)
       /\ \A i \in 1..Len(table.rows) :
            LET e == StoredEntry(i)
                r == table.rows[i]
            IN  IF DOMAIN e = {}
                THEN <<r.SF, r.SA, r.EA, r.SI, r.Notes>> = <<"", "", "", "", "">>
                ELSE IF IsStr(e)
                THEN <<r.SF, r.SA, r.EA, r.SI, r.Notes>> = <<e.bare_string, "", "", "", "">>
                ELSE IF IsNum(e)
                THEN <<r.SA, r.EA, r.SI, r.Notes>> = <<"", "", "", "">>
                ELSE IF "score" \in DOMAIN e /\ "semantic_fidelity" \notin DOMAIN e
                THEN <<r.SF, r.SA, r.EA, r.SI, r.Notes>>
                       = <<e.score, "", "", "", DictGet(e, "notes", "")>>
                ELSE <<r.SF, r.SA, r.EA, r.SI, r.Notes>>
                       = <<e.semantic_fidelity, e.schema_accuracy, e.explicit_accuracy,
                           e.structural_integrity, e.notes>>

\* C16: a parsed value that is not an array, or a non-empty array whose
\* first element is neither a list nor a mapping, fails with
\* UnsupportedShape; the result has no rows and nothing is coerced into
\* rows.
C16_UnsupportedShape ==
    (Normalized
        /\ \/ raw_data.kind # "array"
           \/ (raw_data.elems # <<>> /\ raw_data.elems[1].kind \notin {"list", "dict"}))
    => (table.error = "UnsupportedShape" /\ table.rows = <<>>)

\* an array that starts with a scalar and goes on with a mapping was refused
C16_Witness ==
    /\ Normalized
    /\ raw_data.kind = "array"
    /\ Len(raw_data.elems) = 2
    /\ raw_data.elems[1].kind = "scalar"
    /\ raw_data.elems[2].kind = "dict"
    /\ table.error = "UnsupportedShape"
    /\ table.rows = <<>>

\* the keys that resolve to each legacy column, in the order they are tried
LegacyAliases ==
    << <<"pattern", "pattern_type">>,
       <<"causal type", "sentence_type">>,
       <<"causal", "causal_statement", "relationship">>,
       <<"note", "notes", "reasoning">>,
       <<"Named entity/Object in causal", "named_entity", "object">>,
       <<"original reference", "original_reference", "source_text">> >>

\* the value of the first of the keys the element has, the empty string
\* when it has none of them
RECURSIVE FirstPresent(_, _)
FirstPresent(item, keys) ==
    IF keys = <<>> THEN ""
    ELSE IF item.map[Head(keys)] # Absent THEN item.map[Head(keys)]
    ELSE FirstPresent(item, Tail(keys))

C21_LoadFailsSoft ==
    (Normalized /\ (~score_file.exists \/ ~score_file.readable))
    => /\ LoadScores(score_file) = <<>>
       /\ table = Unscored
       /\ \A i \in 1..Len(table.rows) :
            <<table.rows[i].SF, table.rows[i].SA, table.rows[i].EA, table.rows[i].SI,
              table.rows[i].Notes>> = <<"", "", "", "", "">>

\* two rows were loaded beside a score file that cannot be parsed
C21_Witness ==
    /\ Normalized
    /\ score_file.exists
    /\ ~score_file.readable
    /\ score_file.content # <<>>
    /\ table.error = "none"
    /\ Len(table.rows) = 2

-----------------------------------------------------------------------------
(* A property of the review session (under SpecReview).                    *)

UniqueIds_Of(t) == [i \in 1..Len(t.rows) |-> t.rows[i].Unique_ID]

\* C19: every row of the table has a unique id equal to its zero-based
\* position in the source array, and a later load of the same parsed array
\* gives the same schema tag and the same unique id for every row,
\* whatever the records hold and whatever scores were saved in between.
C19_PositionalIds ==
    /\ [](table.error = "none"
            => /\ Len(table.rows) = Len(raw_data.elems)
               /\ \A i \in 1..Len(table.rows) : table.rows[i].Unique_ID = i - 1)
    /\ [][(table.error # "not run")
            => /\ table'.schema_version = table.schema_version
               /\ UniqueIds_Of(table') = UniqueIds_Of(table)]_vars

\* the table of two rows was loaded again after a score was saved for its
\* first row
C19_Witness ==
    /\ saves > 0
    /\ table.error = "none"
    /\ Len(table.rows) = 2
    /\ saved.uid = "0"
    /\ saved.form.sf = "5"
    /\ table.rows[1].SF = "5"
    /\ table.rows[1].Unique_ID = 0
    /\ table.rows[2].Unique_ID = 1

-----------------------------------------------------------------------------
(* Properties of the matcher (under SpecMatch).                            *)

Compared == shown.status # "not run"

\* position k of the matched entry onwards, n positions
Positions(p, n) == [j \in 1..n |-> p + j - 1]

\* C7: when a match is found every segment gets exactly one highlight span,
\* and the span is the first occurrence of the segment, ignoring case, in
\* the matched entry as it was before any markup, in the casing of the
\* entry; markup inserted for an earlier segment changes neither where nor
\* whether a later segment is highlighted.
C7_SpansInOriginal ==
    (Compared /\ shown.status = "matched")
    => /\ Len(shown.spans) = Len(shown.matched_segments)
       /\ \A k \in 1..Len(shown.matched_segments) :
            LET seg == shown.matched_segments[k]
                p == Find(Lower(shown.best_csv_match), Lower(seg))
            IN  /\ shown.spans[k].found
                /\ shown.spans[k].at = Positions(p, Len(seg))
                /\ shown.spans[k].text = SubSeq(shown.best_csv_match, p, p + Len(seg) - 1)

\* the pieces a snippet is matched by
SnippetSegments ==
    IF Contains(raw_text, ELLIPSIS) THEN Segments(raw_text) ELSE <<raw_text>>

ContainsEvery(entry) ==
    \A k \in 1..Len(SnippetSegments) : Contains(Lower(entry), Lower(SnippetSegments[k]))

\* C8: the chosen reference is the first entry of the corpus, in corpus
\* order, that contains every segment ignoring case, the segments being the
\* non-empty trimmed pieces of the snippet split on the ellipsis, or the
\* whole snippet when it has no ellipsis; no earlier entry that contains
\* them is skipped, none that lacks one is chosen, nothing is chosen only
\* when no entry contains them, and the segments are recorded in their
\* order.  The snippet "The cat sat ... ran away" has the two segments
\* "The cat sat" and "ran away".
C8_FirstContaining ==
    /\ Segments(SegTheCatSat \o <<" ">> \o ELLIPSIS \o <<" ">> \o SegRanAway)
         = <<SegTheCatSat, SegRanAway>>
    /\ (Compared /\ shown.status = "matched")
       => \E i \in 1..Len(corpus) :
            /\ shown.best_csv_match = corpus[i]
            /\ ContainsEvery(corpus[i])
            /\ \A j \in 1..(i - 1) : ~ContainsEvery(corpus[j])
            /\ shown.matched_segments = SnippetSegments
    /\ (Compared /\ shown.status = "not found")
       => \A i \in 1..Len(corpus) : ~ContainsEvery(corpus[i])

\* a snippet of two segments is matched to the second entry of the corpus,
\* the first one lacking a segment
C8_Witness ==
    /\ Compared /\ shown.status = "matched"
    /\ Len(shown.matched_segments) = 2
    /\ Len(corpus) = 2
    /\ shown.best_csv_match = corpus[2]
    /\ shown.best_csv_match # corpus[1]

\* C9: a snippet that contains the ellipsis but has no non-empty piece left
\* after splitting and trimming is matched to no reference, whatever the
\* corpus, also a non-empty one.
C9_NoSegmentNoMatch ==
    (Compared /\ Contains(raw_text, ELLIPSIS) /\ Segments(raw_text) = <<>>)
    => (shown.status # "matched" /\ shown.best_csv_match = None)

\* C20: when no entry of the corpus contains the snippet (every one of its
\* segments), nothing is chosen and nothing is highlighted; this is a
\* normal result, shown as the raw snippet with a not-found warning.  The
\* snippet "elephants flew" against a corpus without that text is such a
\* case.
C20_NoMatchIsNormal ==
    /\ Compare(<<EntryCatStory>>, SegElephants).status = "not found"
    /\ (Compared /\ \A i \in 1..Len(corpus) : ~ContainsEvery(corpus[i]))
       => /\ shown.status = IF corpus = <<>> THEN "no csv" ELSE "not found"
          /\ shown.best_csv_match = None
          /\ shown.matched_segments = <<>>
          /\ shown.spans = <<>>
          /\ shown.final = <<>>
          /\ shown.source_text = raw_text

\* one segment of the snippet is in the first entry, the other in none
C20_Witness ==
    /\ Compared
    /\ Len(corpus) = 2
    /\ corpus[1] = EntryCatStory
    /\ raw_text = SegTheCatSat \o <<" ">> \o ELLIPSIS \o <<" ">> \o SegElephants
    /\ shown.status = "not found"
    /\ shown.source_text = raw_text

-----------------------------------------------------------------------------
(* Properties of the score ledger (under SpecLedger).                      *)

\* C10: after a save for a key (file name, unique id) the ledger holds one
\* entry for the key, made of exactly the four scores and the notes given
\* to this save; no field of the previous entry of the key survives.
C10_FullReplace ==
    saves > 0
    => /\ score_file.exists /\ score_file.readable
       /\ saved.file \in DOMAIN score_file.content
       /\ saved.uid \in DOMAIN score_file.content[saved.file]
       /\ LET entry == score_file.content[saved.file][saved.uid]
          IN  /\ DOMAIN entry = ScoreFields \cup {"notes"}
              /\ entry.semantic_fidelity = Stored(saved.form.sf)
              /\ entry.schema_accuracy = Stored(saved.form.sa)
              /\ entry.explicit_accuracy = Stored(saved.form.ea)
              /\ entry.structural_integrity = Stored(saved.form.si)
              /\ entry.notes = saved.form.notes

\* a save with empty notes over an entry that had notes
C10_Witness ==
    /\ saves > 0
    /\ DOMAIN saved.before # {}
    /\ "notes" \in DOMAIN saved.before
    /\ saved.before.notes # ""
    /\ saved.form.notes = ""
    /\ saved.form.sa = DASH

-----------------------------------------------------------------------------
(* A further property of the recovery (under SpecRecover).                 *)

\* n elements separated by plain commas
RECURSIVE PlainItems(_)
PlainItems(n) ==
    IF n = 1 THEN Elems
    ELSE {x \o <<",">> \o e : x \in PlainItems(n - 1), e \in Elems}

\* C15: for a raw text that is a JSON array inside a leading json fence and
\* a trailing fence, its only defect being a comma right before the closing
\* bracket, the recovery succeeds and returns the value of the array
\* without that comma: every element, in order.  The fenced [{"a":1},]
\* recovers to [{"a":1}].
C15_FencedTrailingComma ==
    Recovered =>
        \A n \in 1..MaxElems : \A x \in PlainItems(n) :
            (/\ text = FENCE_JSON \o <<NL, "[">> \o x \o <<",", "]", NL>> \o FENCE
             /\ JsonLoads(<<"[">> \o x \o <<"]">>).ok)
            => (/\ rec.status = "ok"
                /\ rec.value = JsonLoads(<<"[">> \o x \o <<"]">>).val)

-----------------------------------------------------------------------------
(* Properties of the template substitution (under SpecSubst).              *)

Substituted == final_prompt # NotSubstituted

\* t with its first occurrence of pat, which occurs in t, replaced by rep
FirstOnly(t, pat, rep) ==
    SubSeq(t, 1, Find(t, pat) - 1) \o rep \o SubSeq(t, Find(t, pat) + Len(pat), Len(t))

RECURSIVE JoinWith(_, _)
JoinWith(pieces, sep) ==
    IF Len(pieces) = 1 THEN pieces[1]
    ELSE pieces[1] \o sep \o JoinWith(Tail(pieces), sep)

\* t with every occurrence of pat replaced by rep
Every(t, pat, rep) == JoinWith(Split(t, pat), rep)

\* C12: when the template contains the empty braces, the final prompt is
\* the template with only the first occurrence of the empty braces replaced
\* by the input; every later occurrence and every other brace pair stays.
C12_FirstEmptyBracesOnly ==
    (Substituted /\ Contains(prompt_template, EMPTY_BRACES))
    => final_prompt = FirstOnly(prompt_template, EMPTY_BRACES, user_input)

NAME_BRACES == <<"{", "n", "a", "m", "e", "}">>

\* C13: one placeholder style is applied, the first that the template has
\* in the order empty braces, the braces holding input, the first braces
\* holding an identifier, and appending otherwise.  With both the empty
\* braces and a named placeholder only the empty braces are replaced, and
\* with neither the empty braces nor the input placeholder only the first
\* occurrence of the first named placeholder is: "Hello {name}" with "Bob"
\* gives "Hello Bob".
C13_Precedence ==
    /\ FinalPrompt(TplEmptyAndName, InBob) = InBob \o <<" ">> \o NAME_BRACES
    /\ FinalPrompt(TplHelloName, InBob) = <<"H", "e", "l", "l", "o", " ">> \o InBob
    /\ Substituted =>
         IF Contains(prompt_template, EMPTY_BRACES)
         THEN final_prompt \in {FirstOnly(prompt_template, EMPTY_BRACES, user_input),
                                Every(prompt_template, EMPTY_BRACES, user_input)}
         ELSE IF Contains(prompt_template, INPUT_BRACES)
         THEN final_prompt \in {FirstOnly(prompt_template, INPUT_BRACES, user_input),
                                Every(prompt_template, INPUT_BRACES, user_input)}
         ELSE IF \E i \in 1..Len(prompt_template) : PlaceholderAt(prompt_template, i)
         THEN LET p == CHOOSE i \in 1..Len(prompt_template) :
                         /\ PlaceholderAt(prompt_template, i)
                         /\ \A j \in 1..(i - 1) : ~PlaceholderAt(prompt_template, j)
                  e == IdentEnd(prompt_template, p + 1)
              IN  final_prompt = SubSeq(prompt_template, 1, p - 1) \o user_input
                                   \o SubSeq(prompt_template, e + 1, Len(prompt_template))
         ELSE /\ Len(final_prompt) > Len(prompt_template) + Len(user_input)
              /\ SubSeq(final_prompt, 1, Len(prompt_template)) = prompt_template
              /\ SubSeq(final_prompt, Len(final_prompt) - Len(user_input) + 1,
                        Len(final_prompt)) = user_input

\* the template with the empty braces and a named placeholder was filled
C13_Witness ==
    /\ Substituted
    /\ prompt_template = TplEmptyAndName
    /\ user_input = InBob
    /\ final_prompt = InBob \o <<" ">> \o NAME_BRACES

\* C14: for a template with no placeholder of any style the final prompt is
\* the unchanged template, one newline, the label "Input: " and the input.
C14_AppendOneNewline ==
    (Substituted /\ ~Contains(prompt_template, EMPTY_BRACES)
        /\ ~Contains(prompt_template, INPUT_BRACES)
        /\ \A i \in 1..Len(prompt_template) : ~PlaceholderAt(prompt_template, i))
    => final_prompt = prompt_template \o <<NL, "I", "n", "p", "u", "t", ":", " ">>
                        \o user_input

-----------------------------------------------------------------------------
(* Concurrent saves.                                                       *)

AllIdle == \A s \in Sessions : sessions[s].pc = "idle"

\* C22: with two sessions saving to the same score file, once every save
\* has ended the file holds exactly the mapping written by the last writer
\* (the session whose write ended last), and a load returns that mapping.
C22_LastWriterWins ==
    (AllIdle /\ saved # <<>>)
        => /\ score_file = SaveScores(saved.all_scores)
           /\ LoadScores(score_file) = saved.all_scores

-----------------------------------------------------------------------------
(* The caches.                                                             *)

\* C23: once the table has been loaded after a save, it is the join of the
\* file with the score file as the save left it: its score columns are the
\* current entries, and no join cached before the save is shown.
C23_SaveInvalidatesCache ==
    (saved # <<>> /\ saved.loaded)
        => table = load_json_data(raw_data, SelectedFile, score_file)

\* C24: whatever was loaded before, a load of the reference made now
\* returns the input entries the file holds now, also after a generation
\* has appended a row to generation_log.csv.
C24_ReferenceFollowsFile ==
    CachedReference(ref_cache, LOG_FILE, log).corpus = load_csv_reference(log)

-----------------------------------------------------------------------------
(* The output files and the log (under SpecGen).                           *)

\* C25: no two successful generations wrote to the same file name (every
\* log row is one successful generation and names the file it wrote), so
\* the output directory holds one file for every successful generation.
C25_UniqueOutputNames ==
    /\ \A i, j \in 1..Len(log) :
         i # j => log[i].output_filename # log[j].output_filename
    /\ Cardinality(DOMAIN files) = Len(log)

-----------------------------------------------------------------------------
(* The frame and the domain of a save (under SpecLedger).                  *)

\* C26: a save for a key (file name, unique id) keeps every entry the
\* ledger held: every key is still there after the save, and the entry of
\* every key other than the saved one, in the mapping of the same file and
\* in those of the other files, is what it was.
C26_SaveFrame ==
    [][saves' # saves
         => LET before == LoadScores(score_file)
                after == LoadScores(score_file')
            IN  \A f \in DOMAIN before :
                  /\ f \in DOMAIN after
                  /\ \A u \in DOMAIN before[f] :
                       /\ u \in DOMAIN after[f]
                       /\ <<f, u>> # <<saved'.file, saved'.uid>>
                            => after[f][u] = before[f][u]]_vars

\* two saves into a ledger that held two entries for f1: the second save
\* is for f1 and leaves another entry of f1 and the entry of f2 in place
C26_Witness ==
    /\ saves = 2
    /\ DOMAIN score_file.content = {"f1", "f2"}
    /\ saved.file = "f1"
    /\ DOMAIN score_file.content["f1"] = {"0", "1"}
    /\ DOMAIN saved.before # {}
    /\ IsStr(score_file.content["f1"][IF saved.uid = "0" THEN "1" ELSE "0"])

-----------------------------------------------------------------------------
(* Saving under filters (under SpecFilter).                                *)

\* the scores and notes a row of the table shows
ShownScores(row) == <<row.SF, row.SA, row.EA, row.SI, row.Notes>>

\* C27: a save on the row at position p of the filtered table stores the
\* entry under the position in the source file of the record that row
\* shows, whatever the filters and whatever p; in the join of the file
\* with the ledger the entry is then shown on that record, and every other
\* record shows what it showed before.
C27_KeyedBySourcePosition ==
    [][saves' # saves
         => LET row == df_filtered.rows[saved'.position]
                joined == load_json_data(raw_data, SelectedFile, score_file)
                rejoined == load_json_data(raw_data, SelectedFile, score_file')
            IN  \E k \in 1..Len(raw_data.elems) :
                  /\ saved'.uid = Str(k - 1)
                  /\ row.cells = joined.rows[k].cells
                  /\ row.Unique_ID = k - 1
                  /\ score_file'.content[SelectedFile][Str(k - 1)]
                       = FullEntry(Stored(saved'.form.sf), Stored(saved'.form.sa),
                                   Stored(saved'.form.ea), Stored(saved'.form.si),
                                   saved'.form.notes)
                  /\ ShownScores(rejoined.rows[k])
                       = <<Stored(saved'.form.sf), Stored(saved'.form.sa),
                           Stored(saved'.form.ea), Stored(saved'.form.si),
                           saved'.form.notes>>
                  /\ \A j \in 1..Len(rejoined.rows) :
                       j # k => rejoined.rows[j] = joined.rows[j]]_vars

\* the first row of a filtered table that leaves out the first record of
\* the file is saved with scores
C27_Witness ==
    /\ saves > 0
    /\ saved.position = 1
    /\ saved.uid = "1"
    /\ saved.form.sf = "5"
    /\ df_filtered.selected_patterns # {}
    /\ Len(df_filtered.rows) = 1
    /\ Len(table.rows) = 2

-----------------------------------------------------------------------------
(* The domain of the stored scores (under SpecLedger).                     *)

RubricValues == {"", "1", "2", "3", "4", "5"}

InRubricDomain(entry) ==
    /\ ScoreFields \subseteq DOMAIN entry
    /\ \A k \in ScoreFields : entry[k] \in RubricValues

AllInRubricDomain ==
    \A f \in DOMAIN LoadScores(score_file) :
        \A u \in DOMAIN LoadScores(score_file)[f] :
            InRubricDomain(LoadScores(score_file)[f][u])

\* C28: the entry every save writes has its four scores among the empty
\* string and "1" to "5"; and when the session starts with no ledger,
\* every entry of the ledger has, after any number of saves.
C28_RubricDomain ==
    /\ [][saves' # saves
            => InRubricDomain(score_file'.content[saved'.file][saved'.uid])]_vars
    /\ (score_file = NoFile) => []AllInRubricDomain

\* two saves on an empty ledger, one with every radio on the dash
C28_Witness ==
    /\ saves = 2
    /\ DOMAIN score_file.content = {"f2"}
    /\ DOMAIN score_file.content["f2"] = {"0", "1"}
    /\ \E u \in {"0", "1"} :
         /\ \A k \in ScoreFields : score_file.content["f2"][u][k] = ""
         /\ score_file.content["f2"][IF u = "0" THEN "1" ELSE "0"].semantic_fidelity = "5"

-----------------------------------------------------------------------------
(* The two loaders (under SpecNorm).                                       *)

\* C29: for every array of mappings that evaluation.py normalizes without
\* error, the schema tag it assigns is the tag visualize_page.py assigns.
C29_LoadersAgree ==
    (Normalized /\ ArrayOfDicts /\ table.error = "none")
        => table.schema_version = visualize_schema_version(raw_data)

-----------------------------------------------------------------------------
(* The log and the output directory (under SpecGen).                       *)

\* C30: every row of the log names a file of the output directory; and a
\* generation that succeeds appends one row, with a template and an input
\* of the form, the name of the file it wrote and the time, the file
\* holding the value it parsed.
C30_LogNamesFiles ==
    /\ [](\A i \in 1..Len(log) : log[i].output_filename \in DOMAIN files)
    /\ [][(last'.n # last.n /\ last'.outcome = "success")
            => /\ OutputName(clock) \in DOMAIN files'
               /\ files'[OutputName(clock)] = last'.parsed_json
               /\ \E template \in Templates \ {<<>>}, input \in Inputs \ {<<>>} :
                    log' = Append(log, [prompt_template |-> template, input |-> input,
                                        output_filename |-> OutputName(clock),
                                        timestamp |-> clock])]_vars

\* two generations that succeeded in different seconds, each with its file
\* and its row
C30_Witness ==
    /\ Len(log) = 2
    /\ last.outcome = "success"
    /\ log[1].output_filename # log[2].output_filename
    /\ {log[1].output_filename, log[2].output_filename} = DOMAIN files

====
